---- MODULE Spec2Model ----
(***************************************************************************)
(* Model of the storefront cart controller (assets/cart.js, CartManager)   *)
(* together with the cart network collaborator (CartJS) it drives.         *)
(*                                                                         *)
(* The DOM of #cart-items is a sequence of .cart-item elements; every      *)
(* element has a node identity, the data-item-key, the text of its         *)
(* .quantity-display, its image, title and price, and the                  *)
(* cart-item--removing class.  CartJS is the environment: a call handed to *)
(* it is in flight until the server has processed it and its response has  *)
(* been delivered to the callbacks; responses may be delivered in any      *)
(* order.                                                                  *)
(***************************************************************************)
EXTENDS Integers, Sequences, FiniteSets, TLC

\* ------------------------------------------------------------------ bounds
\* Number of CartJS calls the user actions of one behaviour may dispatch.
MaxReq == 2
\* Longest cart and longest rendered list the reconcile specification draws.
MaxLines == 2
\* Largest number, in tenths, handed over as a raw quantity.
MaxRawTenths == 115
\* Longest variant list of a product.
MaxVariants == 2
\* Largest amount, in cents, of the run of amounts handed to the formatter.
MaxCents == 120
\* Largest quantity the plus button of the product page is pressed up to.
MaxPageQuantity == 2
\* Most submits of the product form that reach the cart.
MaxSubmits == 1

\* --------------------------------------------------------------- constants
MaxQuantity == 50
MaxItemQuantity == 10
UpdateLimit == 50
FormLimit == 50

Keys == {"a", "b", "c"}
\* variant ids handed to addToCart: the line of variant v has item key v;
\* "" is a missing variant id
VariantIds == {"a", "b", ""}
\* values of the id field of a submitted product form ("": none)
FormIds == {"a", ""}
\* raw quantities handed to addToCart
QuantityInputs == {0, 2, 11}
\* deltas handed to updateQuantity (the buttons pass +1 and -1)
Changes == {-2, -1, 1}

\* What the shop shows for a product; the merchant may change it while the
\* page is open.
Catalog ==
  << [image |-> "img0", variant_title |-> "Default Title", product_title |-> "Pesto"],
     [image |-> "img1", variant_title |-> "Large", product_title |-> "Pesto"] >>

final_price(k) == IF k = "a" THEN 2000 ELSE IF k = "b" THEN 3000 ELSE 2500

\* Carts the page can be loaded with (window.cartData); the server itself
\* enforces no ceiling, so a cart may come with more than 50 items.
InitServers ==
  { << [key |-> "a", quantity |-> 1] >>,
    << [key |-> "b", quantity |-> 10], [key |-> "a", quantity |-> 39] >>,
    << [key |-> "a", quantity |-> 52] >> }

VARIABLES
  server,      \* the authoritative cart: sequence of [key, quantity]
  catalog,     \* index into Catalog the server renders snapshots with
  cart,        \* CartJS.cart, the last snapshot CartJS received
  dom,         \* children of #cart-items with class cart-item, in order
  emptyShown,  \* #cart-items holds the .cart-flyout__empty message
  badge,       \* #cart-count: [text, display]
  subtotal,    \* .cart-flyout__subtotal-amount text
  footer,      \* .cart-flyout__footer style.display
  cartFlyout,  \* #cart-flyout's aria-hidden, .nav__cart's aria-expanded, the overlay,
               \* and the overflow style of the body
  timers,      \* nodes with a pending 400 ms item.remove() timer
  net,         \* CartJS calls in flight and their undelivered responses
  nextReq,     \* number of the next CartJS call
  eventDue,    \* a call has ended and its cart.requestComplete is still to come
  last,        \* what the last step did (inputs and pre-state)
  removal,     \* per key: progress of a failed removal (see C9)
  page,        \* the product page: its form, option inputs and variant data
  site         \* localStorage, Config and what the scripts did with them

vars == << server, catalog, cart, dom, emptyShown, badge, subtotal, footer,
           cartFlyout, timers, net, nextReq, eventDue, last, removal, page, site >>

\* the variables of the cart and its view
cartVars == << server, catalog, cart, dom, emptyShown, badge, subtotal, footer,
               cartFlyout, timers, net, nextReq, eventDue, removal >>


\* ------------------------------------------------------------ pure helpers
RECURSIVE SumQuantity(_)
SumQuantity(items) ==
  IF items = << >> THEN 0 ELSE Head(items).quantity + SumQuantity(Tail(items))

RECURSIVE SumPrice(_)
SumPrice(items) ==
  IF items = << >> THEN 0
  ELSE Head(items).quantity * final_price(Head(items).key) + SumPrice(Tail(items))

\* index of the first element of seq s with the given key, 0 when absent
IndexOfKey(s, k) ==
  IF \E i \in 1..Len(s) : s[i].key = k
  THEN CHOOSE i \in 1..Len(s) : s[i].key = k /\ \A j \in 1..(i - 1) : s[j].key # k
  ELSE 0

KeysOf(s) == { s[i].key : i \in 1..Len(s) }
IdsOf(s) == { s[i].id : i \in 1..Len(s) }

\* the cart snapshot the server answers with
SnapshotItem(line, cat) ==
  [ key |-> line.key,
    quantity |-> line.quantity,
    image |-> Catalog[cat].image,
    variant_title |-> Catalog[cat].variant_title,
    product_title |-> Catalog[cat].product_title,
    final_price |-> final_price(line.key),
    final_line_price |-> final_price(line.key) * line.quantity ]

Snapshot(srv, cat) ==
  [ item_count |-> SumQuantity(srv),
    total_price |-> SumPrice(srv),
    items |-> [ i \in 1..Len(srv) |-> SnapshotItem(srv[i], cat) ] ]

\* Utils.Format.money for a number of cents: '$' dollars '.' two digits
formatMoney(cents) == << "$", cents \div 100, cents % 100 >>

\* A JavaScript value handed over as a quantity: a number or a numeric string
\* (in decimal notation, tenths of a unit), NaN, a string without a leading
\* number, null, or undefined (the argument left out).
Number(n) == [ type |-> "number", tenths |-> 10 * n ]
NonNumeric == { [ type |-> t, tenths |-> 0 ] : t \in {"NaN", "text", "null", "undefined"} }
RawQuantities ==
  { [ type |-> t, tenths |-> n ] :
      t \in {"number", "numstring"}, n \in (0 - 15)..MaxRawTenths }
  \cup NonNumeric

\* parseInt(value): the digits before the decimal point, NaN when there are none
parseInt(raw) ==
  IF raw.type \in {"number", "numstring"}
  THEN [ nan |-> FALSE,
         val |-> IF raw.tenths >= 0 THEN raw.tenths \div 10
                 ELSE 0 - ((0 - raw.tenths) \div 10) ]
  ELSE [ nan |-> TRUE, val |-> 0 ]

\* Utils.Format.money(cents) for any JavaScript value: anything whose typeof
\* is not 'number' gives '$0.00'; a number goes through Intl.NumberFormat,
\* which renders NaN as '$NaN'
money(raw) ==
  IF raw.type \notin {"number", "NaN"} THEN formatMoney(0)
  ELSE IF raw.type = "NaN" THEN << "$NaN" >>
  ELSE formatMoney(raw.tenths \div 10)

\* the values handed to the formatter: whole amounts of cents, and values
\* that are not amounts
MoneyInputs ==
  { Number(c) : c \in (0..MaxCents) \cup {2500} } \cup NonNumeric

\* Utils.Validate.quantity(quantity, min, max)
ValidateQuantityNoMax(quantity, min, max) ==
  IF parseInt(quantity).nan \/ parseInt(quantity).val < min THEN min
  ELSE parseInt(quantity).val
ValidateQuantity(quantity, min, max) ==
  LET num == parseInt(quantity)
  IN IF num.nan \/ num.val < min THEN min
     ELSE IF num.val > max THEN max
     ELSE num.val

\* CartManager.getCurrentCartTotal: CartJS.cart.items is always there once
\* CartJS is initialised, so the badge and DOM fallbacks are not taken
getCurrentCartTotal(c) == SumQuantity(c.items)

\* CartManager.getLineNumberForKey: 1-based line in CartJS.cart, 0 for null
getLineNumberNotFound(c, itemKey) == 0
getLineNumberForKey(c, itemKey) == IndexOfKey(c.items, itemKey)

\* addToCart's test for a missing variant id: !variantId
VariantIdAlwaysThere(variantId) == FALSE
MissingVariantId(variantId) == variantId = ""

\* handleProductForm's test on the form's id field: !variantId
FormLacksVariantId(variantId) == variantId = ""

\* the text of a form field holding the numeral of n
NumString(n) == [ type |-> "numstring", tenths |-> 10 * n ]

\* handleProductForm's quantity: parseInt(formData.get('quantity')) || 1
FormQuantity(q) ==
  LET num == parseInt(q)
  IN IF num.nan \/ num.val = 0 THEN 1 ELSE num.val

\* the notification handleProductForm shows for a cart holding `total`
FormLimitMessage(total) ==
  IF FormLimit - total <= 0 THEN "Cart is full (50 item limit)"
  ELSE "Can only add more (50 item limit)"

\* handleProductForm's own limit test (the ceiling is written out)
FormLimitUnchecked(total, quantity) == FALSE
ExceedsFormLimit(total, quantity) == total + quantity > FormLimit

\* addToCart's limit test on the prospective total
ExceedsLimitOffByOne(total, quantity) == total + quantity >= MaxQuantity
ExceedsCartLimit(total, quantity) == total + quantity > site.config.cart.maxQuantity

\* updateQuantity's limit test (the ceiling is written out in the code)
ExceedsUpdateLimit(total, change) == total + change > UpdateLimit

\* updateQuantity rejects the edit: the limit is looked at only when increasing
UpdateRejectedAnySign(total, change) == ExceedsUpdateLimit(total, change)
UpdateRejected(total, change) == change > 0 /\ ExceedsUpdateLimit(total, change)

\* updateQuantity's new quantity
NewQuantityNoFloor(currentQuantity, change) == currentQuantity + change
NewQuantity(currentQuantity, change) ==
  IF currentQuantity + change < 0 THEN 0 ELSE currentQuantity + change

\* updateQuantity's optimistic edit: quantityDisplay.textContent = newQuantity,
\* written before anything is handed to CartJS
DisplayLeftForResponse(d, idx, newQuantity) == d
OptimisticDisplay(d, idx, newQuantity) == [ d EXCEPT ![idx].qty = newQuantity ]

\* ErrorHandler.createError(type, message, code): the class of the error made
createErrorUntyped(type, code) == [ name |-> "ThemeError", code |-> code ]
createError(type, code) ==
  [ name |-> IF type = "cart" THEN "CartError"
             ELSE IF type = "form" THEN "FormError"
             ELSE IF type = "modal" THEN "ModalError"
             ELSE IF type = "api" THEN "APIError" ELSE "ThemeError",
    code |-> code ]

\* CartError.isRecoverable
isRecoverable(code) == code \notin {"CART_ITEM_UNAVAILABLE", "CART_VARIANT_NOT_FOUND"}

\* ErrorHandler.handle(error): the notification it puts on screen ("" none);
\* only a recoverable error is shown
handleNotification(error) ==
  IF error.name = "CartError" /\ ~isRecoverable(error.code) THEN "" ELSE error.code

\* the promise of addToCart is rejected with error: a caller that handles the
\* rejection sees it; otherwise the window's unhandledrejection listener
\* (ErrorHandler.handleGlobalError) wraps it in a ThemeError and handles that
globalNotification(error, handled) ==
  IF handled THEN "" ELSE handleNotification(createError("theme", "GLOBAL_ERROR"))

\* ---------------------------------------------------------- cart view diff
displayTitle(item) ==
  IF item.variant_title # "" /\ item.variant_title # "Default Title"
  THEN item.variant_title ELSE item.product_title

linePrice(item) ==
  IF item.final_line_price # 0 THEN item.final_line_price
  ELSE item.final_price * item.quantity

\* createCartItemElement: a new node (its entering class is not modelled)
createCartItemElement(item, id) ==
  [ id |-> id, key |-> item.key, qty |-> item.quantity, image |-> item.image,
    title |-> displayTitle(item), price |-> formatMoney(linePrice(item)),
    removing |-> FALSE ]

\* updateExistingCartItem: quantity, price and title; never the image
UpdateExistingStale(el, item) ==
  [ el EXCEPT !.price = formatMoney(linePrice(item)), !.title = displayTitle(item) ]
UpdateExistingWithImage(el, item) ==
  [ el EXCEPT !.qty = item.quantity, !.price = formatMoney(linePrice(item)),
              !.title = displayTitle(item), !.image = item.image ]
updateExistingCartItem(el, item) ==
  [ el EXCEPT !.qty = item.quantity, !.price = formatMoney(linePrice(item)),
              !.title = displayTitle(item) ]

\* smallest node identity not in use
FreshId(used) ==
  CHOOSE i \in 1..(Cardinality(used) + 1) :
    i \notin used /\ \A j \in 1..(i - 1) : j \in used

\* the newItems.forEach of updateCartItemsIntelligently
RECURSIVE AddOrUpdate(_, _, _)
AddOrUpdate(d, items, used) ==
  IF items = << >> THEN d
  ELSE LET item == Head(items)
           idx == IndexOfKey(d, item.key)
       IN IF idx # 0
          THEN AddOrUpdate([d EXCEPT ![idx] = updateExistingCartItem(d[idx], item)],
                           Tail(items), used)
          ELSE AddOrUpdate(Append(d, createCartItemElement(item, FreshId(used \cup IdsOf(d)))),
                           Tail(items), used)

\* reorderCartItems: the elements found for the new items, in their order
RECURSIVE OrderedItems(_, _)
OrderedItems(d, items) ==
  IF items = << >> THEN << >>
  ELSE LET idx == IndexOfKey(d, Head(items).key)
       IN (IF idx # 0 THEN << d[idx] >> ELSE << >>) \o OrderedItems(d, Tail(items))

ReorderKeepsDomOrder(d, items) == d
reorderCartItems(d, items) == OrderedItems(d, items)

RebuildAllItems(d, newItems, used) ==
  AddOrUpdate(<< >>, newItems, used \cup IdsOf(d))
updateCartItemsIntelligently(d, newItems, used) ==
  LET newKeys == KeysOf(newItems)
      kept == SelectSeq(d, LAMBDA el : el.key \in newKeys)
  IN reorderCartItems(AddOrUpdate(kept, newItems, used \cup IdsOf(d)), newItems)

\* CartManager.updateCartCount(count): the text and the display of #cart-count
updateCartCountAlwaysShown(count) == [ text |-> count, display |-> "flex" ]
updateCartCount(count) ==
  [ text |-> count, display |-> IF count > 0 THEN "flex" ELSE "none" ]

\* updateCart = updateCartCount + updateCartContent, on the view
\* v = [dom, emptyShown, badge, subtotal, footer]; used: node identities
\* that closures still hold
updateCart(v, c, used) ==
  LET count == c.item_count
      b == updateCartCount(count)
      f == IF count > 0 THEN "block" ELSE "none"
  IN IF count = 0
     THEN [ v EXCEPT !.badge = b, !.footer = f, !.dom = << >>, !.emptyShown = TRUE ]
     ELSE LET d0 == IF v.emptyShown THEN << >> ELSE v.dom
          IN [ v EXCEPT !.badge = b, !.footer = f, !.emptyShown = FALSE,
                        !.dom = updateCartItemsIntelligently(d0, c.items, used \cup IdsOf(v.dom)),
                        !.subtotal = formatMoney(c.total_price) ]

View == [ dom |-> dom, emptyShown |-> emptyShown, badge |-> badge,
          subtotal |-> subtotal, footer |-> footer ]


\* -------------------------------------------------------------- bookkeeping
NoSnap == [ item_count |-> 0, total_price |-> 0, items |-> << >> ]

\* a CartJS call: its arguments, what its callbacks hold (node, prev), whether
\* the promise made around it was dropped by the caller (a product form)
NoReq == [ id |-> 0, kind |-> "none", line |-> 0, vid |-> "", qty |-> 0, key |-> "",
           node |-> 0, prev |-> 0, dropped |-> FALSE, phase |-> "none", snap |-> NoSnap ]

\* err, rejected: code and class of the error the promise of addToCart was
\* rejected with; note: the notification the handler put on screen;
\* globalNote: the one the unhandledrejection listener put there;
\* form: the step began as the submit of a product form;
\* raw: the quantity argument of addToCart as handed over, change: its number
\* (for the formatter: raw is its argument and money its result);
\* shown0: the quantity the item showed before the step (NotShown: none);
\* had: the keys rendered before a cart event
NotShown == 0 - 1
NoLast == [ op |-> "init", key |-> "", change |-> 0, total0 |-> 0, nreq0 |-> 0,
            shown0 |-> NotShown, had |-> {}, snap |-> NoSnap, again |-> FALSE,
            err |-> "", rejected |-> "", note |-> "", globalNote |-> "",
            form |-> FALSE, raw |-> Number(0), money |-> formatMoney(0),
            req |-> NoReq ]

\* the quantity the rendered item of key k shows
Shown(d, k) == IF IndexOfKey(d, k) = 0 THEN NotShown ELSE d[IndexOfKey(d, k)].qty

\* node identities a closure still refers to: pending timers, error callbacks
HeldIds == timers \cup { r.node : r \in net }

\* the removal story of each key after updateCart(c) ran
RemovalAfterSnapshot(c) ==
  [ k \in Keys |->
      IF k \notin KeysOf(c.items) THEN "none"
      ELSE IF removal[k] = "failed" THEN "resnapped" ELSE removal[k] ]

\* the view variables after updateCart(c)
ApplySnapshot(c) ==
  LET v == updateCart(View, c, HeldIds)
  IN /\ dom' = v.dom
     /\ emptyShown' = v.emptyShown
     /\ badge' = v.badge
     /\ subtotal' = v.subtotal
     /\ footer' = v.footer
     /\ removal' = RemovalAfterSnapshot(c)

\* ------------------------------------------------------- the cart flyout
\* the flyout, the cart button and the overlay as the page is rendered and
\* createOverlay leaves them
ClosedFlyout ==
  [ ariaHidden |-> "true", ariaExpanded |-> "false", overlayVisible |-> FALSE,
    bodyOverflow |-> "" ]

\* Config cart.autoOpen
autoOpen == TRUE

\* CartManager.openCart
openCart(f) ==
  [ f EXCEPT !.ariaHidden = "false", !.ariaExpanded = "true", !.overlayVisible = TRUE,
             !.bodyOverflow = "hidden" ]

\* CartManager.closeCart
closeCartKeepsOverlay(f) ==
  [ f EXCEPT !.ariaHidden = "true", !.ariaExpanded = "false", !.bodyOverflow = "" ]
closeCart(f) ==
  [ f EXCEPT !.ariaHidden = "true", !.ariaExpanded = "false", !.overlayVisible = FALSE,
             !.bodyOverflow = "" ]

\* CartManager.isCartOpen
isCartOpen(f) == f.ariaHidden = "false"

\* ------------------------------------------------------- the mobile menu
\* #mobile-menu's aria-hidden and the hamburger's aria-expanded as rendered
ClosedMenu == [ ariaHidden |-> "true", ariaExpanded |-> "false" ]

\* MobileMenu.open and MobileMenu.close on the menu; both also write the
\* overflow of the body, which the cart flyout writes too
openMenu(menu) == [ menu EXCEPT !.ariaHidden = "false", !.ariaExpanded = "true" ]
closeMenu(menu) == [ menu EXCEPT !.ariaHidden = "true", !.ariaExpanded = "false" ]
isMenuOpen(menu) == menu.ariaHidden = "false"

\* ------------------------------------------------------- the product page
\* The values each option position offers (pills or select options).
OptionValues == << {"Small", "Large"}, {"Red", "Green"} >>
NumOptions == Len(OptionValues)

VariantIdValues == << "456", "789", "1011" >>
variantPrice(option1) == IF option1 = "Small" THEN 2000 ELSE 3000

\* variant i of a product's variant data
VariantOf(i, o1, o2, av) ==
  [ id |-> VariantIdValues[i], options |-> << o1, o2 >>, available |-> av,
    price |-> variantPrice(o1) ]

\* the variant lists #product-variants-json can carry
VariantLists ==
  UNION { { [ i \in 1..n |-> VariantOf(i, o1[i], o2[i], av[i]) ] :
              o1 \in [1..n -> OptionValues[1]], o2 \in [1..n -> OptionValues[2]],
              av \in [1..n -> BOOLEAN] } : n \in 1..MaxVariants }

\* what the text of #product-variants-json is: well-formed variant data, text
\* JSON.parse rejects, or JSON without a variants array
ScriptKinds == {"ok", "malformed", "novariants"}

NoPrice == << >>

\* the add-to-cart button as the template renders it for variant v
ButtonFor(v, quantity) ==
  IF v.available
  THEN [ label |-> "Add to Cart", disabled |-> FALSE,
         cartPrice |-> formatMoney(v.price * quantity), priceSpan |-> TRUE,
         variantId |-> v.id, price |-> v.price ]
  ELSE [ label |-> "Sold Out", disabled |-> TRUE, cartPrice |-> NoPrice,
         priceSpan |-> FALSE, variantId |-> v.id, price |-> v.price ]

\* ------------------------------------------------------------------------
\* The waitlist modal (Modal of modal.js): the class is-open of the modal
\* element, the display of its form content and success content, and the
\* text of the required email field of its form.
\* A text is a sequence of characters.
EmailTexts == { << >>, << "t" >>, << "t", "@", "e" >> }

\* form.checkValidity() of a form whose only field is a required email
\* input: text with one "@" that has something before it and after it
checkValidity(email) ==
  \E i \in 2..(Len(email) - 1) :
    /\ email[i] = "@"
    /\ \A j \in 1..Len(email) : email[j] = "@" => j = i

\* the modal as the page is served: not open, the form content with no
\* inline display, the success content hidden, the form empty
InitialModal ==
  [ isOpen |-> FALSE, formContent |-> "", successContent |-> "none", email |-> << >> ]

\* Modal.resetState
resetStateKeepsFields(m) ==
  [ m EXCEPT !.formContent = "block", !.successContent = "none" ]
resetState(m) ==
  [ m EXCEPT !.formContent = "block", !.successContent = "none", !.email = << >> ]

\* Modal.open
open(m) == resetState([ m EXCEPT !.isOpen = TRUE ])

\* Modal.close
closeKeepsClass(m) == resetState(m)
close(m) == resetState([ m EXCEPT !.isOpen = FALSE ])

\* Modal.showSuccess
showSuccess(m) == [ m EXCEPT !.formContent = "none", !.successContent = "block" ]

\* boundEscapeHandler, on a keydown whose key is Escape
boundEscapeHandler(m) == IF m.isOpen THEN close(m) ELSE m

\* The elements of the modal a click can land on. The container lies inside
\* the overlay, everything else inside the container.
ModalTargets == { "modal__overlay", "modal__container", "data-modal-close", "email", "modal__success-content" }

\* boundContainerHandler stops a click that started in the container from
\* reaching the overlay
ReachesOverlay(target) == target = "modal__overlay"

\* boundOverlayHandler: only a click whose target is the overlay closes
boundOverlayHandler(m, target) == IF target = "modal__overlay" THEN close(m) ELSE m

\* what a click on `target` does: the listener of the close button, then
\* the container's, then the overlay's if the click gets that far
clickIn(m, target) ==
  LET closed == IF target = "data-modal-close" THEN close(m) ELSE m
  IN  IF ReachesOverlay(target) THEN boundOverlayHandler(closed, target) ELSE closed

\* the submit listener of the form (a form that is not valid fires no
\* submit event)
submitModalForm(m) == IF checkValidity(m.email) THEN showSuccess(m) ELSE m

\* the product page as rendered for the variant list, with its k-th variant
\* selected
RenderedPage(variants, k, script, quantity) ==
  [ variants |-> variants, script |-> script,
    options |-> variants[k].options,
    variantId |-> variants[k].id,
    button |-> ButtonFor(variants[k], quantity),
    price |-> formatMoney(variants[k].price),
    quantity |-> NumString(quantity),
    resets |-> << >>, called |-> << >>, note |-> "",
    modal |-> InitialModal, menu |-> ClosedMenu,
    op |-> "init", outcome |-> "none" ]

DefaultPage == RenderedPage(<< VariantOf(1, "Small", "Red", TRUE) >>, 1, "ok", 1)

\* variant[optionKey] === selectedOptions[optionKey] for every option key
MatchesFirstOption(variant, selected) == variant.options[1] = selected[1]
Matches(variant, selected) ==
  \A i \in 1..Len(selected) : variant.options[i] = selected[i]

\* variantData.variants.find(...): the index of the first match, 0 for none
FindVariant(variants, selected) ==
  IF \E i \in 1..Len(variants) : Matches(variants[i], selected)
  THEN CHOOSE i \in 1..Len(variants) :
         /\ Matches(variants[i], selected)
         /\ \A j \in 1..(i - 1) : ~Matches(variants[j], selected)
  ELSE 0

\* the try block around JSON.parse and the search: what becomes of an
\* exception raised in it
parseOutcomeUncaught(script) == IF script = "ok" THEN "parsed" ELSE "thrown"
parseOutcome(script) == IF script = "ok" THEN "parsed" ELSE "caught"

\* the if (matchingVariant) block: id input, button and main price
ApplyVariant(p, v) ==
  LET quantity == FormQuantity(p.quantity)
  IN [ p EXCEPT
         !.variantId = v.id,
         !.button = IF v.available
                    THEN [ label |-> "Add to Cart", disabled |-> FALSE,
                           cartPrice |-> formatMoney(v.price * quantity),
                           priceSpan |-> TRUE,
                           variantId |-> v.id, price |-> v.price ]
                    ELSE [ @ EXCEPT !.label = "Sold Out", !.disabled = TRUE,
                                    !.cartPrice = NoPrice, !.priceSpan = FALSE ],
         !.price = IF v.price # 0 THEN formatMoney(v.price) ELSE @ ]

\* ProductForms.updateVariantFromPills on page p (options: the hidden inputs)
updateVariantFromPills(p) ==
  IF parseOutcome(p.script) # "parsed"
  THEN [ p EXCEPT !.outcome = parseOutcome(p.script) ]
  ELSE LET idx == FindVariant(p.variants, p.options)
       IN IF idx # 0
          THEN [ ApplyVariant(p, p.variants[idx]) EXCEPT !.outcome = "applied" ]
          ELSE [ p EXCEPT !.outcome = "none" ]

\* ProductForms.updateVariantId on page p (options: the selects)
updateVariantId(p) ==
  IF parseOutcome(p.script) # "parsed"
  THEN [ p EXCEPT !.outcome = parseOutcome(p.script) ]
  ELSE LET idx == FindVariant(p.variants, p.options)
       IN IF idx # 0
          THEN [ ApplyVariant(p, p.variants[idx]) EXCEPT !.outcome = "applied" ]
          ELSE [ p EXCEPT !.outcome = "none" ]

\* what the quantity field is made to hold by typing: a negative numeral,
\* zero, or a numeral with a fraction
TypedQuantities ==
  { NumString(0 - 2), NumString(0), [ type |-> "numstring", tenths |-> 15 ] }

\* the page after a handler that is not the resolver has run
Did(p, op) == [ p EXCEPT !.op = op, !.outcome = "none", !.called = << >>, !.note = "" ]

\* ProductForms.updateCartPrice: needs the button's .cart-price element
updateCartPrice(p, quantity) ==
  IF p.button.priceSpan
  THEN [ p EXCEPT !.button.cartPrice = formatMoney(p.button.price * quantity) ]
  ELSE p

\* ProductForms.handleQuantityChange on the plus or minus button
handleQuantityChange(p, action) ==
  LET currentQuantity == FormQuantity(p.quantity)
      newQuantity == IF action = "increase" THEN currentQuantity + 1
                     ELSE IF currentQuantity - 1 > 1 THEN currentQuantity - 1 ELSE 1
  IN updateCartPrice([ p EXCEPT !.quantity = NumString(newQuantity) ], newQuantity)

\* ProductForms.handleQuantityInputChange once the field holds p.quantity
handleQuantityInputChange(p) ==
  LET quantity == FormQuantity(p.quantity)
  IN IF quantity < 1
     THEN updateCartPrice([ p EXCEPT !.quantity = NumString(1) ], 1)
     ELSE updateCartPrice(p, quantity)

\* submitButton.textContent: the label and the price after it
textContent(b) == << b.label, b.cartPrice >>

\* submitButton.disabled = true; submitButton.textContent = 'Adding...'
Adding(b) ==
  [ b EXCEPT !.label = "Adding...", !.disabled = TRUE, !.cartPrice = NoPrice,
             !.priceSpan = FALSE ]

\* submitButton.disabled = false; submitButton.textContent = originalText
ResetButtonKeepsLabel(b, originalText) == [ b EXCEPT !.disabled = FALSE ]
ResetButton(b, originalText) ==
  [ b EXCEPT !.disabled = FALSE, !.label = originalText[1],
             !.cartPrice = originalText[2], !.priceSpan = FALSE ]

\* what window.addToCart is when the form is submitted: the function cart.js
\* installs, a function that throws, or nothing
AddToCartKinds == {"cart", "throws", "absent"}

\* handleProductForm on the page: fn is what window.addToCart is, total the
\* cart total the pre-check reads
submitPage(p, fn, total) ==
  LET variantId == p.variantId
      quantity == FormQuantity(p.quantity)
      originalText == textContent(p.button)
      call == [ id |-> variantId, quantity |-> quantity ]
  IN IF FormLacksVariantId(variantId) THEN Did(p, "submit")
     ELSE IF ExceedsFormLimit(total, quantity)
     THEN [ Did(p, "submit") EXCEPT !.note = FormLimitMessage(total) ]
     ELSE IF fn = "cart"
     THEN [ Did(p, "submit") EXCEPT !.button = Adding(@),
                                   !.called = << call >>,
                                   !.resets = Append(@, originalText) ]
     ELSE IF fn = "throws"
     THEN [ Did(p, "submit") EXCEPT !.button = ResetButton(Adding(@), originalText),
                                   !.called = << call >> ]
     ELSE [ Did(p, "submit") EXCEPT !.button = ResetButton(Adding(@), originalText) ]

\* ------------------------------------------------------------------------
\* The local preference store (localStorage) and the theme configuration
\* (Config of config.js).
\* A stored text is a sequence of JSON tokens; a string literal is one token.
StoredTexts ==
  { << >>, << "{" >>, << "{", "}" >>, << "null" >>,
    << "{", "reducedMotion", ":", "true", "}" >>,
    << "{", "currency", ":", "EUR", "}" >> }

\* what localStorage.getItem gives for a key: null, or the text stored
NoItem == [ present |-> FALSE, text |-> << >> ]
Item(text) == [ present |-> TRUE, text |-> text ]

\* the values JSON.parse gives for the texts above: null, or an object with
\* at most one of the properties reducedMotion and currency
JsonNull == [ type |-> "null", has |-> {}, reducedMotion |-> FALSE, currency |-> "" ]
JsonObject == [ type |-> "object", has |-> {}, reducedMotion |-> FALSE, currency |-> "" ]

\* JSON.parse(text): ok is FALSE when it throws SyntaxError
JSONparse(text) ==
  IF text = << "null" >> THEN [ ok |-> TRUE, value |-> JsonNull ]
  ELSE IF text = << "{", "}" >> THEN [ ok |-> TRUE, value |-> JsonObject ]
  ELSE IF /\ Len(text) = 5
          /\ text[1] = "{" /\ text[3] = ":" /\ text[5] = "}"
          /\ \/ text[2] = "reducedMotion" /\ text[4] \in {"true", "false"}
             \/ text[2] = "currency" /\ text[4] \in {"EUR", "USD"}
  THEN [ ok |-> TRUE,
         value |-> IF text[2] = "reducedMotion"
                   THEN [ JsonObject EXCEPT !.has = {"reducedMotion"},
                                            !.reducedMotion = (text[4] = "true") ]
                   ELSE [ JsonObject EXCEPT !.has = {"currency"},
                                            !.currency = text[4] ] ]
  ELSE [ ok |-> FALSE, value |-> JsonNull ]

\* localStorage.getItem(key) on the store st: it throws when the browser
\* denies access to the store
getItem(st, key) ==
  IF st.denied THEN [ threw |-> TRUE, item |-> NoItem ]
  ELSE [ threw |-> FALSE, item |-> st.items[key] ]

\* what a read gives its caller: an exception, or a value
Returned(v) == [ raised |-> FALSE, value |-> v ]
Raised == [ raised |-> TRUE, value |-> JsonNull ]

\* Utils.Storage.get(key, defaultValue)
StorageGet(st, key, defaultValue) ==
  LET got == getItem(st, key)
  IN  IF got.threw THEN Returned(defaultValue)
      ELSE IF ~got.item.present THEN Returned(defaultValue)
      ELSE IF ~JSONparse(got.item.text).ok THEN Returned(defaultValue)
      ELSE Returned(JSONparse(got.item.text).value)

\* AdvancedAccessibility.loadUserAccessibilityPreferences: no try around the
\* read or the parse; a missing item and an empty text read as '{}'
loadUserAccessibilityPreferences(st) ==
  LET got == getItem(st, "accessibilityPreferences")
      text == IF ~got.item.present \/ got.item.text = << >>
              THEN << "{", "}" >> ELSE got.item.text
  IN  IF got.threw THEN Raised
      ELSE IF ~JSONparse(text).ok THEN Raised
      ELSE Returned(JSONparse(text).value)

\* the Config object literal
DefaultConfig ==
  [ debug |-> [ enabled |-> FALSE ],
    cart |-> [ maxQuantity |-> MaxQuantity, maxItemQuantity |-> MaxItemQuantity,
               autoOpen |-> autoOpen, animationDuration |-> 400,
               dependencyRetries |-> 100 ],
    modals |-> [ animationDuration |-> 300 ],
    animations |-> [ duration |-> 300, respectReducedMotion |-> TRUE ],
    performance |-> [ enableLazyLoading |-> TRUE, imageFadeIn |-> TRUE,
                      preloadCriticalImages |-> TRUE ],
    notifications |-> [ showSuccess |-> FALSE, showError |-> TRUE, duration |-> 3000 ],
    accessibility |-> [ highContrast |-> FALSE, reducedMotion |-> FALSE ],
    formatting |-> [ currency |-> "USD" ] ]

\* the part of Config.loadUserPreferences that applies parsed preferences
applyPreferences(config, prefs) ==
  LET c1 == IF "reducedMotion" \in prefs.has
            THEN IF prefs.reducedMotion
                 THEN [ config EXCEPT !.accessibility.reducedMotion = TRUE,
                                      !.animations.duration = 0,
                                      !.cart.animationDuration = 0,
                                      !.modals.animationDuration = 0 ]
                 ELSE [ config EXCEPT !.accessibility.reducedMotion = FALSE ]
            ELSE config
  IN  IF "currency" \in prefs.has
      THEN [ c1 EXCEPT !.formatting.currency = prefs.currency ]
      ELSE c1

\* Config.loadUserPreferences: whatever is thrown inside is caught, and an
\* empty text counts as no preferences; reading a property of null throws
loadUserPreferences(config, st) ==
  LET got == getItem(st, "theme_preferences")
  IN  IF got.threw THEN config
      ELSE IF ~got.item.present \/ got.item.text = << >> THEN config
      ELSE IF ~JSONparse(got.item.text).ok THEN config
      ELSE IF JSONparse(got.item.text).value.type = "null" THEN config
      ELSE applyPreferences(config, JSONparse(got.item.text).value)

\* Config.init in the environment env: the host, the media queries and the
\* connection of the browser
min(a, b) == IF a < b THEN a ELSE b
init(config, env, st) ==
  LET c1 == IF env.isDevelopment THEN [ config EXCEPT !.debug.enabled = TRUE ] ELSE config
      c2 == [ c1 EXCEPT !.accessibility.reducedMotion = env.reducedMotion,
                        !.accessibility.highContrast = env.highContrast ]
      c3 == IF c2.accessibility.reducedMotion
            THEN [ c2 EXCEPT !.animations.duration = 0,
                             !.animations.respectReducedMotion = TRUE,
                             !.cart.animationDuration = 0,
                             !.modals.animationDuration = 0 ]
            ELSE c2
      c4 == IF env.slowConnection
            THEN [ c3 EXCEPT !.performance.enableLazyLoading = TRUE,
                             !.performance.imageFadeIn = FALSE,
                             !.performance.preloadCriticalImages = FALSE,
                             !.animations.duration = min(@, 150) ]
            ELSE c3
  IN  loadUserPreferences(c4, st)

\* Config.set(path, value) for a path section.key that exists
set(config, e) == [ config EXCEPT ![e.section][e.key] = e.value ]

\* Config.update(updates): every property of the updates is written
RECURSIVE update(_, _)
update(config, updates) ==
  IF updates = << >> THEN config
  ELSE update(set(config, Head(updates)), Tail(updates))

\* Config.reset
reset(config, env, st) == init(config, env, st)

\* the value the configuration has at section.key
ValueAt(config, path) == config[path[1]][path[2]]

\* ------------------------------------------------------------------------
\* CartManager's wait for jQuery and CartJS (constructor, waitForDependencies).
\* w: whether both scripts are defined, the retry count and its ceiling, the
\* pending poll timer, what init did, the errors handed to ErrorHandler.handle,
\* and the promise of waitForDependencies.
NewManager(available, maxRetries) ==
  [ available |-> available, retryCount |-> 0, maxRetries |-> maxRetries,
    timer |-> FALSE, initialized |-> FALSE, initRuns |-> 0, reported |-> << >>,
    promise |-> "pending" ]

\* CartManager.init: the body runs once
initManager(w) ==
  IF w.initialized THEN w
  ELSE [ w EXCEPT !.initialized = TRUE, !.initRuns = @ + 1 ]

\* the branch of checkDependencies taken when the retries are used up
onTimeoutSilent(w) == [ w EXCEPT !.promise = "rejected" ]
onTimeout(w) ==
  [ w EXCEPT !.reported = Append(@, createError("cart", "CART_DEPENDENCY_TIMEOUT").code),
             !.promise = "rejected" ]

\* checkDependencies, the poll of waitForDependencies
checkDependencies(w) ==
  IF w.available
  THEN [ initManager(w) EXCEPT !.promise = "resolved" ]
  ELSE IF w.retryCount >= w.maxRetries
  THEN onTimeout(w)
  ELSE [ w EXCEPT !.retryCount = @ + 1, !.timer = TRUE ]

\* new CartManager(): the first poll runs inside the constructor; what is
\* thrown inside the promise's executor rejects the promise
Constructed(available, maxRetries) == checkDependencies(NewManager(available, maxRetries))

\* ------------------------------------------------------------------- Init
EmptyView == [ dom |-> << >>, emptyShown |-> FALSE,
               badge |-> [ text |-> 0, display |-> "none" ],
               subtotal |-> formatMoney(0), footer |-> "none" ]

\* the cart and its view once CartManager.init has run on the cart the page
\* came with
InitCartView(srv, cat) ==
  /\ server = srv
  /\ catalog = cat
  /\ cart = Snapshot(srv, cat)
  /\ LET v == updateCart(EmptyView, Snapshot(srv, cat), {})
     IN /\ dom = v.dom
        /\ emptyShown = v.emptyShown
        /\ badge = v.badge
        /\ subtotal = v.subtotal
        /\ footer = v.footer
  /\ cartFlyout = ClosedFlyout
  /\ timers = {}
  /\ net = {}
  /\ nextReq = 1
  /\ eventDue = FALSE
  /\ last = NoLast
  /\ removal = [ k \in Keys |-> "none" ]

\* the store and the configuration of a browser on the production host with
\* no preference set and nothing stored
StoreKeys == { "theme_preferences", "accessibilityPreferences" }
EmptyStore == [ denied |-> FALSE, items |-> [ k \in StoreKeys |-> NoItem ] ]
PlainEnv == [ isDevelopment |-> FALSE, reducedMotion |-> FALSE, highContrast |-> FALSE,
              slowConnection |-> FALSE ]
\* which of the three ceiling tests reject a prospective total
NoVerdict == [ addToCart |-> FALSE, updateQuantity |-> FALSE, handleProductForm |-> FALSE ]
LoadedSite(env, st) ==
  [ env |-> env, store |-> st, config |-> init(DefaultConfig, env, st),
    changed |-> {}, result |-> Returned(JsonNull), default |-> JsonNull,
    rejects |-> NoVerdict,
    wait |-> Constructed(TRUE, init(DefaultConfig, env, st).cart.dependencyRetries) ]

InitCart(srv, cat) == InitCartView(srv, cat) /\ site = LoadedSite(PlainEnv, EmptyStore)

InitWith(srv, cat) == InitCart(srv, cat) /\ page = DefaultPage

Init == \E srv \in InitServers : InitWith(srv, 1)

\* ------------------------------------------------------------ user actions
\* CartManager.addToCart(variantId, quantity)
\* handled: the caller handles a rejection of the promise it gets;
\* form: the caller is handleProductForm; q: the raw quantity argument
\* (quantity = 1 when it is left out)
addToCart(variantId, q, handled, form) ==
  /\ nextReq <= MaxReq
  /\ LET quantity == ValidateQuantity(IF q.type = "undefined" THEN Number(1) ELSE q,
                                      1, MaxItemQuantity)
         currentCartTotal == getCurrentCartTotal(cart)
         base == [ NoLast EXCEPT !.op = "addToCart", !.key = variantId, !.raw = q,
                                 !.change = parseInt(q).val,
                                 !.total0 = currentCartTotal, !.nreq0 = nextReq,
                                 !.form = form ]
     IN IF MissingVariantId(variantId)
        THEN /\ last' = [ base EXCEPT
                            !.err = createError("cart", "CART_VARIANT_NOT_FOUND").code,
                            !.rejected = createError("cart", "CART_VARIANT_NOT_FOUND").name,
                            !.note = handleNotification(
                                       createError("cart", "CART_VARIANT_NOT_FOUND")),
                            !.globalNote = globalNotification(
                                       createError("cart", "CART_VARIANT_NOT_FOUND"), handled) ]
             /\ UNCHANGED << net, nextReq >>
        ELSE IF ExceedsCartLimit(currentCartTotal, quantity)
        THEN /\ last' = [ base EXCEPT
                            !.err = createError("cart", "CART_QUANTITY_LIMIT").code,
                            !.rejected = createError("cart", "CART_QUANTITY_LIMIT").name,
                            !.note = handleNotification(
                                       createError("cart", "CART_QUANTITY_LIMIT")),
                            !.globalNote = globalNotification(
                                       createError("cart", "CART_QUANTITY_LIMIT"), handled) ]
             /\ UNCHANGED << net, nextReq >>
        ELSE /\ handled \/ form
             /\ net' = net \cup { [ NoReq EXCEPT !.id = nextReq, !.kind = "add",
                                                 !.vid = variantId, !.key = variantId,
                                                 !.qty = quantity, !.dropped = form,
                                                 !.phase = "sent" ] }
             /\ nextReq' = nextReq + 1
             /\ last' = base
  /\ UNCHANGED << server, catalog, cart, dom, emptyShown, badge, subtotal, footer,
                  cartFlyout, timers, eventDue, removal >>

\* window.addToCart(variantId, quantity) called by any script of the page
AddToCart(variantId, q, handled) ==
  /\ addToCart(variantId, Number(q), handled, FALSE)
  /\ UNCHANGED << site, page >>

\* ProductForms.handleProductForm(form) on the cart: id and q are the texts
\* of the form's id and quantity fields, fn is what window.addToCart is; the
\* promise of window.addToCart is dropped
handleProductForm(id, q, fn) ==
  /\ nextReq <= MaxReq
  /\ LET quantity == FormQuantity(q)
         currentCartTotal == getCurrentCartTotal(cart)
         base == [ NoLast EXCEPT !.op = "submit", !.key = id, !.raw = q,
                                 !.change = parseInt(q).val,
                                 !.total0 = currentCartTotal, !.nreq0 = nextReq,
                                 !.form = TRUE ]
     IN IF FormLacksVariantId(id)
        THEN /\ last' = base
             /\ UNCHANGED << server, catalog, cart, dom, emptyShown, badge, subtotal,
                             footer, cartFlyout, timers, net, nextReq, eventDue, removal >>
        ELSE IF ExceedsFormLimit(currentCartTotal, quantity)
        THEN /\ last' = [ base EXCEPT !.note = FormLimitMessage(currentCartTotal) ]
             /\ UNCHANGED << server, catalog, cart, dom, emptyShown, badge, subtotal,
                             footer, cartFlyout, timers, net, nextReq, eventDue, removal >>
        ELSE IF fn = "cart"
        THEN addToCart(id, Number(quantity), FALSE, TRUE)
        ELSE /\ last' = base
             /\ UNCHANGED << server, catalog, cart, dom, emptyShown, badge, subtotal,
                             footer, cartFlyout, timers, net, nextReq, eventDue, removal >>

\* a product form of the page is submitted with cart.js loaded
HandleProductForm(id, q) ==
  /\ handleProductForm(id, NumString(q), "cart")
  /\ UNCHANGED << site, page >>

\* CartManager.updateQuantity(itemKey, change)
UpdateQuantity(itemKey, change) ==
  /\ nextReq <= MaxReq
  /\ LET idx == IndexOfKey(dom, itemKey)
         base == [ NoLast EXCEPT !.op = "updateQuantity", !.key = itemKey,
                                 !.change = change, !.nreq0 = nextReq,
                                 !.total0 = getCurrentCartTotal(cart),
                                 !.shown0 = Shown(dom, itemKey) ]
     IN IF idx = 0
        THEN /\ last' = base
             /\ UNCHANGED << dom, timers, net, nextReq, removal >>
        ELSE LET currentQuantity == dom[idx].qty
                 newQuantity == NewQuantity(currentQuantity, change)
                 lineNumber == getLineNumberForKey(cart, itemKey)
                 req == [ NoReq EXCEPT !.id = nextReq, !.line = lineNumber,
                                       !.key = itemKey, !.node = dom[idx].id,
                                       !.prev = currentQuantity, !.phase = "sent" ]
             IN IF UpdateRejected(getCurrentCartTotal(cart), change)
                THEN /\ last' = [ base EXCEPT !.note = "Cart cannot exceed 50 items total" ]
                     /\ UNCHANGED << dom, timers, net, nextReq, removal >>
                ELSE /\ last' = base
                     /\ removal' = [ removal EXCEPT ![itemKey] = "none" ]
                     /\ IF newQuantity = 0
                        THEN /\ dom' = [ OptimisticDisplay(dom, idx, newQuantity)
                                           EXCEPT ![idx].removing = TRUE ]
                             /\ timers' = timers \cup { dom[idx].id }
                             /\ IF lineNumber # 0
                                THEN /\ net' = net \cup { [ req EXCEPT !.kind = "remove" ] }
                                     /\ nextReq' = nextReq + 1
                                ELSE UNCHANGED << net, nextReq >>
                        ELSE /\ dom' = OptimisticDisplay(dom, idx, newQuantity)
                             /\ UNCHANGED timers
                             /\ IF lineNumber # 0
                                THEN /\ net' = net \cup { [ req EXCEPT !.kind = "update",
                                                                       !.qty = newQuantity ] }
                                     /\ nextReq' = nextReq + 1
                                ELSE UNCHANGED << net, nextReq >>
  /\ UNCHANGED << site, page, server, catalog, cart, emptyShown, badge, subtotal, footer, cartFlyout,
                  eventDue >>

\* the 400 ms timer of the removal branch: item.remove()
RemovalTimer(n) ==
  /\ n \in timers
  /\ timers' = timers \ {n}
  /\ dom' = SelectSeq(dom, LAMBDA el : el.id # n)
  /\ last' = [ NoLast EXCEPT !.op = "timer" ]
  /\ UNCHANGED << site, page, server, catalog, cart, emptyShown, badge, subtotal, footer,
                  cartFlyout, net, nextReq, eventDue, removal >>

\* ------------------------------------------------- the cart collaborator
\* /cart/add.js: the line of the variant grows, or a new line is put first
ServerAdd(srv, k, q) ==
  LET idx == IndexOfKey(srv, k)
  IN IF idx # 0 THEN [ srv EXCEPT ![idx].quantity = @ + q ]
     ELSE << [ key |-> k, quantity |-> q ] >> \o srv

\* /cart/change.js for a 1-based line: quantity 0 removes the line
ServerChange(srv, line, q) ==
  IF q = 0 THEN [ i \in 1..(Len(srv) - 1) |-> IF i < line THEN srv[i] ELSE srv[i + 1] ]
  ELSE [ srv EXCEPT ![line].quantity = q ]

\* the server applies call r and answers with the cart it then holds
ServerProcess(r) ==
  /\ r \in net
  /\ r.phase = "sent"
  /\ r.kind = "add" \/ r.line <= Len(server)
  /\ server' = IF r.kind = "add" THEN ServerAdd(server, r.vid, r.qty)
               ELSE ServerChange(server, r.line, r.qty)
  /\ net' = (net \ {r}) \cup
            { [ r EXCEPT !.phase = "ok", !.snap = Snapshot(server', catalog) ] }
  /\ last' = [ NoLast EXCEPT !.op = "server" ]
  /\ UNCHANGED << site, page, catalog, cart, dom, emptyShown, badge, subtotal, footer, cartFlyout,
                  timers, nextReq, eventDue, removal >>

\* the error code addToCart's error callback derives from the response text
AddErrorCode(reason) ==
  IF reason = "unavailable" THEN "CART_ITEM_UNAVAILABLE"
  ELSE IF reason = "inventory" THEN "CART_INSUFFICIENT_INVENTORY"
  ELSE "CART_ADD_ERROR"

\* updateItem's error callback: quantityDisplay.textContent = currentQuantity
\* (nothing to see when the node is no longer in the document)
RollbackQuantity(d, r) ==
  [ i \in 1..Len(d) |-> IF d[i].id = r.node THEN [ d[i] EXCEPT !.qty = r.prev ] ELSE d[i] ]

\* a successful response reaches CartJS: CartJS.cart is updated, the success
\* callback runs and cart.requestComplete is triggered (requestCompleteHandler)
DeliverSuccess(r) ==
  /\ r \in net
  /\ r.phase = "ok"
  /\ net' = net \ {r}
  /\ cart' = r.snap
  /\ cartFlyout' = IF r.kind = "add" /\ autoOpen THEN openCart(cartFlyout) ELSE cartFlyout
  /\ ApplySnapshot(r.snap)
  /\ last' = [ NoLast EXCEPT !.op = "success", !.key = r.key,
                             !.shown0 = Shown(dom, r.key), !.snap = r.snap,
                             !.req = [ r EXCEPT !.snap = NoSnap ] ]
  /\ eventDue' = FALSE
  /\ UNCHANGED << site, page, server, catalog, timers, nextReq >>

\* call r fails (the network, or the server refuses it with a reason) and
\* its error callback runs
\* handled: the caller of addToCart handles the rejection of its promise
DeliverError(r, reason, handled) ==
  /\ r \in net
  /\ r.phase = "sent"
  /\ r.kind = "add" \/ reason = "network"
  /\ handled = ~r.dropped \/ (r.kind = "add" /\ ~r.dropped)
  /\ net' = net \ {r}
  /\ dom' = IF r.kind = "update" THEN RollbackQuantity(dom, r) ELSE dom
  /\ removal' = IF r.kind = "remove" THEN [ removal EXCEPT ![r.key] = "failed" ]
                ELSE removal
  /\ last' = [ NoLast EXCEPT
                 !.op = "error", !.key = r.key, !.shown0 = Shown(dom, r.key), !.req = r,
                 !.err = IF r.kind = "add"
                         THEN createError("cart", AddErrorCode(reason)).code ELSE "",
                 !.rejected = IF r.kind = "add"
                              THEN createError("cart", AddErrorCode(reason)).name ELSE "",
                 !.note = IF r.kind = "update" THEN "Failed to update quantity"
                          ELSE IF r.kind = "remove" THEN "Failed to remove item"
                          ELSE handleNotification(createError("cart", AddErrorCode(reason))),
                 !.globalNote =
                   IF r.kind = "add"
                   THEN globalNotification(createError("cart", AddErrorCode(reason)), handled)
                   ELSE "" ]
  /\ eventDue' = TRUE
  /\ UNCHANGED << site, page, server, catalog, cart, emptyShown, badge, subtotal, footer,
                  cartFlyout, timers, nextReq >>

\* after a failed call CartJS triggers cart.requestComplete with the
\* CartJS.cart it has (requestCompleteHandler)
RequestCompleteEvent ==
  /\ eventDue
  /\ eventDue' = FALSE
  /\ ApplySnapshot(cart)
  /\ last' = [ NoLast EXCEPT !.op = "requestComplete", !.snap = cart ]
  /\ UNCHANGED << site, page, server, catalog, cart, cartFlyout, timers, net, nextReq >>

\* ------------------------------------------------------------------- Next
Next ==
  \/ \E v \in VariantIds, q \in QuantityInputs, h \in BOOLEAN : AddToCart(v, q, h)
  \/ \E v \in FormIds, q \in QuantityInputs : HandleProductForm(v, q)
  \/ \E k \in Keys, c \in Changes : UpdateQuantity(k, c)
  \/ \E n \in timers : RemovalTimer(n)
  \/ \E r \in net : ServerProcess(r)
  \/ \E r \in net : DeliverSuccess(r)
  \/ \E r \in net, reason \in {"network", "unavailable", "inventory"}, h \in BOOLEAN :
       DeliverError(r, reason, h)
  \/ RequestCompleteEvent

Spec == Init /\ [][Next]_vars


\* ------------------------------------------------------------------------
\* The reconcile on its own: the cart view in any state the page can show it
\* in, and cart events carrying any cart (the cart also changes from other
\* tabs and devices).
KeySeqs ==
  UNION { { ks \in [1..n -> Keys] : \A i, j \in 1..n : i # j => ks[i] # ks[j] } :
          n \in 0..MaxLines }

\* the carts a cart event can carry: any lines in any order, 1 or 2 of the
\* first and 1 of each other
EventCarts ==
  { [ i \in 1..Len(ks) |-> [ key |-> ks[i], quantity |-> IF i = 1 THEN q ELSE 1 ] ] :
      ks \in KeySeqs, q \in 1..2 }

\* how a rendered item can look: in step with a snapshot (1, 2) or edited
\* down by the user since (0); Spec covers the items that are fading out
Looks == { [ qty |-> q, removing |-> FALSE, cat |-> 1 ] : q \in 0..2 }

RenderedLook(k, i, look) ==
  LET item == SnapshotItem([ key |-> k, quantity |-> IF look.qty = 0 THEN 1 ELSE look.qty ],
                           look.cat)
  IN [ createCartItemElement(item, i) EXCEPT !.qty = look.qty, !.removing = look.removing ]

InitReconcile ==
  \E ks \in KeySeqs, look \in [Keys -> Looks] :
    LET d == [ i \in 1..Len(ks) |-> RenderedLook(ks[i], i, look[ks[i]]) ]
        srv == [ i \in 1..Len(ks) |->
                   [ key |-> ks[i],
                     quantity |-> IF look[ks[i]].qty = 0 THEN 1 ELSE look[ks[i]].qty ] ]
    IN /\ server = srv
       /\ catalog = 1
       /\ cart = Snapshot(srv, 1)
       /\ dom = d
       /\ emptyShown = FALSE
       /\ badge = [ text |-> SumQuantity(srv),
                    display |-> IF SumQuantity(srv) > 0 THEN "flex" ELSE "none" ]
       /\ subtotal = formatMoney(SumPrice(srv))
       /\ footer = IF SumQuantity(srv) > 0 THEN "block" ELSE "none"
       /\ cartFlyout = ClosedFlyout
       /\ timers = { d[i].id : i \in { j \in 1..Len(d) : d[j].removing } }
       /\ net = {}
       /\ nextReq = 1
       /\ eventDue = FALSE
       /\ last = NoLast
       /\ removal = [ k \in Keys |-> "none" ]
       /\ page = DefaultPage
       /\ site = LoadedSite(PlainEnv, EmptyStore)

\* CartJS reports the cart the server now holds (readyHandler,
\* requestCompleteHandler): updateCart(cart)
CartEvent(srv, cat) ==
  LET c == Snapshot(srv, cat)
  IN /\ server' = srv
     /\ catalog' = cat
     /\ cart' = c
     /\ ApplySnapshot(c)
     /\ last' = [ NoLast EXCEPT !.op = "event", !.snap = c, !.had = KeysOf(dom),
                                !.again = (last.op = "event" /\ last.snap = c) ]
     /\ UNCHANGED << site, page, cartFlyout, timers, net, nextReq, eventDue >>

NextReconcile ==
  \/ \E srv \in EventCarts, cat \in 1..Len(Catalog) : CartEvent(srv, cat)

SpecReconcile == InitReconcile /\ [][NextReconcile]_vars


\* ------------------------------------------------------------------------
\* addToCart on every kind of quantity argument a script of the page can hand
\* to window.addToCart.
AddRawQuantity(variantId, raw) ==
  /\ addToCart(variantId, raw, TRUE, FALSE)
  /\ UNCHANGED << site, page >>

NextQuantity ==
  \/ \E raw \in RawQuantities : AddRawQuantity("a", raw)

SpecQuantity == Init /\ [][NextQuantity]_vars


\* ------------------------------------------------------------------------
\* The money formatter on its own.
\* CartManager.formatMoney(cents) -> Utils.Format.money(cents, 'USD', 'en-US')
FormatMoney(raw) ==
  /\ last' = [ NoLast EXCEPT !.op = "money", !.raw = raw, !.money = money(raw) ]
  /\ UNCHANGED << site, page, server, catalog, cart, dom, emptyShown, badge, subtotal, footer,
                  cartFlyout, timers, net, nextReq, eventDue, removal >>

NextMoney ==
  \/ \E raw \in MoneyInputs : FormatMoney(raw)

SpecMoney == InitWith(<< [key |-> "a", quantity |-> 1] >>, 1) /\ [][NextMoney]_vars


\* ------------------------------------------------------------------------
\* The cart flyout: the cart button, the close button, the overlay and the
\* Escape key, with adds that open the flyout when they succeed.
\* a click on .nav__cart (openCartHandler)
CartButtonClick ==
  /\ cartFlyout' = openCart(cartFlyout)
  /\ last' = [ NoLast EXCEPT !.op = "cartButton" ]
  /\ UNCHANGED << site, page, server, catalog, cart, dom, emptyShown, badge, subtotal, footer,
                  timers, net, nextReq, eventDue, removal >>

\* a click on .cart-flyout__close (closeCartHandler)
CartCloseClick ==
  /\ cartFlyout' = closeCart(cartFlyout)
  /\ last' = [ NoLast EXCEPT !.op = "closeButton" ]
  /\ UNCHANGED << site, page, server, catalog, cart, dom, emptyShown, badge, subtotal, footer,
                  timers, net, nextReq, eventDue, removal >>

\* a click on .cart-overlay (overlayClickHandler)
OverlayClick ==
  /\ cartFlyout' = closeCart(cartFlyout)
  /\ last' = [ NoLast EXCEPT !.op = "overlay" ]
  /\ UNCHANGED << site, page, server, catalog, cart, dom, emptyShown, badge, subtotal, footer,
                  timers, net, nextReq, eventDue, removal >>

\* keydown with key Escape: escapeHandler of the cart and the
\* boundEscapeHandlers of the modal and of the mobile menu all listen on the
\* document
EscapeKey ==
  /\ cartFlyout' =
       LET f == IF isCartOpen(cartFlyout) THEN closeCart(cartFlyout) ELSE cartFlyout
       IN  IF isMenuOpen(page.menu) THEN [ f EXCEPT !.bodyOverflow = "" ] ELSE f
  /\ page' = [ page EXCEPT !.modal = boundEscapeHandler(page.modal),
                           !.menu = IF isMenuOpen(@) THEN closeMenu(@) ELSE @ ]
  /\ last' = [ NoLast EXCEPT !.op = "escape" ]
  /\ UNCHANGED << site, server, catalog, cart, dom, emptyShown, badge, subtotal, footer,
                  timers, net, nextReq, eventDue, removal >>

NextFlyout ==
  \/ CartButtonClick
  \/ CartCloseClick
  \/ OverlayClick
  \/ EscapeKey
  \/ \E q \in QuantityInputs, h \in BOOLEAN : AddToCart("a", q, h)
  \/ \E r \in net : ServerProcess(r)
  \/ \E r \in net : DeliverSuccess(r)
  \/ \E r \in net, reason \in {"network", "unavailable"}, h \in BOOLEAN :
       DeliverError(r, reason, h)
  \/ RequestCompleteEvent

SpecFlyout == InitWith(<< [key |-> "a", quantity |-> 1] >>, 1) /\ [][NextFlyout]_vars


\* ------------------------------------------------------------------------
\* The cart flyout and the mobile menu on one page: both lock the scrolling
\* of the body.
\* a click on .nav__hamburger
HamburgerClick ==
  /\ page' = [ page EXCEPT !.menu = openMenu(@) ]
  /\ cartFlyout' = [ cartFlyout EXCEPT !.bodyOverflow = "hidden" ]
  /\ last' = [ NoLast EXCEPT !.op = "hamburger" ]
  /\ UNCHANGED << site, server, catalog, cart, dom, emptyShown, badge, subtotal, footer,
                  timers, net, nextReq, eventDue, removal >>

\* a click on .mobile-menu__close, on a link of the menu or on the menu's
\* own backdrop: each runs MobileMenu.close
MenuCloseClick ==
  /\ page' = [ page EXCEPT !.menu = closeMenu(@) ]
  /\ cartFlyout' = [ cartFlyout EXCEPT !.bodyOverflow = "" ]
  /\ last' = [ NoLast EXCEPT !.op = "menuClose" ]
  /\ UNCHANGED << site, server, catalog, cart, dom, emptyShown, badge, subtotal, footer,
                  timers, net, nextReq, eventDue, removal >>

\* the window is resized: boundResizeHandler closes an open menu
WindowResize ==
  /\ page' = [ page EXCEPT !.menu = IF isMenuOpen(@) THEN closeMenu(@) ELSE @ ]
  /\ cartFlyout' = IF isMenuOpen(page.menu)
                   THEN [ cartFlyout EXCEPT !.bodyOverflow = "" ] ELSE cartFlyout
  /\ last' = [ NoLast EXCEPT !.op = "resize" ]
  /\ UNCHANGED << site, server, catalog, cart, dom, emptyShown, badge, subtotal, footer,
                  timers, net, nextReq, eventDue, removal >>

NextScroll ==
  \/ HamburgerClick
  \/ MenuCloseClick
  \/ WindowResize
  \/ CartButtonClick
  \/ CartCloseClick
  \/ OverlayClick
  \/ EscapeKey
  \/ \E q \in QuantityInputs : AddToCart("a", q, TRUE)
  \/ \E r \in net : ServerProcess(r)
  \/ \E r \in net : DeliverSuccess(r)

SpecScroll == InitWith(<< [key |-> "a", quantity |-> 1] >>, 1) /\ [][NextScroll]_vars


\* ------------------------------------------------------------------------
\* The waitlist modal on a page that also has the cart flyout.
\* a handler of the modal has run; nothing of the cart changes
ModalStep(op) ==
  /\ last' = [ NoLast EXCEPT !.op = op ]
  /\ UNCHANGED << cartVars, site >>

\* a click on [data-modal-open="waitlist-modal"]
ModalOpenClick ==
  /\ page' = [ page EXCEPT !.modal = open(page.modal) ]
  /\ ModalStep("modalOpen")

\* a click that lands on `target` inside the modal element
ModalClick(target) ==
  /\ page' = [ page EXCEPT !.modal = clickIn(page.modal, target) ]
  /\ ModalStep(target)

\* the visitor types `text` into the email field
ModalInput(text) ==
  /\ page' = [ page EXCEPT !.modal.email = text ]
  /\ ModalStep("modalInput")

\* the visitor submits the form of the modal
ModalSubmit ==
  /\ page' = [ page EXCEPT !.modal = submitModalForm(page.modal) ]
  /\ ModalStep("modalSubmit")

NextModal ==
  \/ ModalOpenClick
  \/ \E target \in ModalTargets : ModalClick(target)
  \/ \E text \in EmailTexts : ModalInput(text)
  \/ ModalSubmit
  \/ EscapeKey
  \/ CartButtonClick
  \/ CartCloseClick

SpecModal == InitWith(<< [key |-> "a", quantity |-> 1] >>, 1) /\ [][NextModal]_vars


\* ------------------------------------------------------------------------
\* The preference store and the configuration: the scripts read preferences
\* from a store they do not control, and change and reset the configuration.
Environments ==
  [ isDevelopment : {FALSE}, reducedMotion : BOOLEAN, highContrast : {FALSE},
    slowConnection : BOOLEAN ]

StoredItems == { NoItem } \cup { Item(text) : text \in StoredTexts }

Stores ==
  { [ denied |-> TRUE, items |-> [ k \in StoreKeys |-> NoItem ] ] }
    \cup { [ denied |-> FALSE, items |-> items ] : items \in [ StoreKeys -> StoredItems ] }

\* the store cannot be read at `key`: access is denied, or the text stored
\* is not JSON
Unreadable(st, key) ==
  \/ st.denied
  \/ st.items[key].present /\ ~JSONparse(st.items[key].text).ok

ConfigEdits ==
  { [ section |-> "cart", key |-> "maxQuantity", value |-> 25 ],
    [ section |-> "animations", key |-> "duration", value |-> 500 ],
    [ section |-> "formatting", key |-> "currency", value |-> "EUR" ] }

ConfigUpdates ==
  { << [ section |-> "cart", key |-> "maxQuantity", value |-> 25 ],
       [ section |-> "cart", key |-> "autoOpen", value |-> FALSE ] >>,
    << [ section |-> "notifications", key |-> "duration", value |-> 5000 ] >> }

PathsOf(updates) == { << updates[i].section, updates[i].key >> : i \in 1..Len(updates) }

InitSite ==
  /\ InitCartView(<< [key |-> "a", quantity |-> 1] >>, 1)
  /\ page = DefaultPage
  /\ \E env \in Environments, st \in Stores : site = LoadedSite(env, st)

\* a script that works on the store or the configuration has run; the cart
\* and the page stay as they are
SiteStep(op, key) ==
  /\ last' = [ NoLast EXCEPT !.op = op, !.key = key ]
  /\ UNCHANGED << cartVars, page >>

\* a call of Utils.Storage.get(key, defaultValue)
ReadStorage(key, defaultValue) ==
  /\ site' = [ site EXCEPT !.result = StorageGet(site.store, key, defaultValue),
                           !.default = defaultValue ]
  /\ SiteStep("Storage.get", key)

\* a call of Config.loadUserPreferences(), which returns nothing
LoadUserPreferences ==
  /\ site' = [ site EXCEPT !.config = loadUserPreferences(@, site.store),
                           !.result = Returned(JsonNull), !.default = JsonNull ]
  /\ SiteStep("loadUserPreferences", "theme_preferences")

\* new AdvancedAccessibility() reads its preferences; its default is {}
LoadAccessibilityPreferences ==
  /\ site' = [ site EXCEPT !.result = loadUserAccessibilityPreferences(site.store),
                           !.default = JsonObject ]
  /\ SiteStep("loadUserAccessibilityPreferences", "accessibilityPreferences")

\* a call of Config.set(section.key, value)
ConfigSet(e) ==
  /\ site' = [ site EXCEPT !.config = set(@, e),
                           !.changed = @ \cup { << e.section, e.key >> } ]
  /\ SiteStep("set", "")

\* a call of Config.update(updates)
ConfigUpdate(updates) ==
  /\ site' = [ site EXCEPT !.config = update(@, updates),
                           !.changed = @ \cup PathsOf(updates) ]
  /\ SiteStep("update", "")

\* a call of Config.reset()
ConfigReset ==
  /\ site' = [ site EXCEPT !.config = reset(@, site.env, site.store) ]
  /\ SiteStep("reset", "")

\* cart totals near the ceilings in use
CeilingTotals == { 25, 50 }

\* the three ceiling tests are put to a cart holding `total` items and one
\* more item: addToCart, the plus button of updateQuantity and the pre-check
\* of handleProductForm
CheckCeiling(total) ==
  /\ site' = [ site EXCEPT !.rejects =
                 [ addToCart |-> ExceedsCartLimit(total, 1),
                   updateQuantity |-> UpdateRejected(total, 1),
                   handleProductForm |-> ExceedsFormLimit(total, 1) ] ]
  /\ last' = [ NoLast EXCEPT !.op = "ceiling", !.total0 = total, !.change = 1 ]
  /\ UNCHANGED << cartVars, page >>

NextSite ==
  \/ \E total \in CeilingTotals : CheckCeiling(total)
  \/ \E key \in StoreKeys, defaultValue \in {JsonNull, JsonObject} :
       ReadStorage(key, defaultValue)
  \/ LoadUserPreferences
  \/ LoadAccessibilityPreferences
  \/ \E e \in ConfigEdits : ConfigSet(e)
  \/ \E updates \in ConfigUpdates : ConfigUpdate(updates)
  \/ ConfigReset

SpecSite == InitSite /\ [][NextSite]_vars


\* ------------------------------------------------------------------------
\* CartManager is constructed on a page where jQuery and CartJS are loaded
\* already, load later, or never load. The cart view is not looked at here.
\* cart.dependencyRetries as configured before cart.js runs
RetryCeilings == { 0, 3, DefaultConfig.cart.dependencyRetries }

InitWait ==
  /\ InitCartView(<< [key |-> "a", quantity |-> 1] >>, 1)
  /\ page = DefaultPage
  /\ \E available \in BOOLEAN, maxRetries \in RetryCeilings :
       site = [ LoadedSite(PlainEnv, EmptyStore) EXCEPT
                  !.config.cart.dependencyRetries = maxRetries,
                  !.wait = Constructed(available, maxRetries) ]

\* a poll timer set by checkDependencies runs
PollTimer ==
  /\ site.wait.timer
  /\ site' = [ site EXCEPT !.wait = checkDependencies([ @ EXCEPT !.timer = FALSE ]) ]
  /\ SiteStep("poll", "")

\* the scripts of jQuery and CartJS have both been evaluated
DependenciesLoad ==
  /\ ~site.wait.available
  /\ site' = [ site EXCEPT !.wait.available = TRUE ]
  /\ SiteStep("load", "")

NextWait ==
  \/ PollTimer
  \/ DependenciesLoad

SpecWait == InitWait /\ [][NextWait]_vars

\* the timers the browser has set do run
SpecWaitFair == SpecWait /\ WF_vars(PollTimer)


\* ------------------------------------------------------------------------
\* The product page: any variant list, any selected variant, and the option
\* pills and selects the customer works.
InitForm ==
  /\ InitCart(<< [key |-> "a", quantity |-> 1] >>, 1)
  /\ \E variants \in VariantLists, script \in ScriptKinds, quantity \in 1..2 :
       \E k \in 1..Len(variants) :
         page = RenderedPage(variants, k, script, quantity)

\* a handler of the product page that leaves the cart alone has run
PageStep ==
  /\ last' = [ NoLast EXCEPT !.op = "page" ]
  /\ UNCHANGED << cartVars, site >>

\* ProductForms.handleVariantPillClick: the pill of value `value` at option
\* position i is clicked
PillClick(i, value) ==
  /\ page' = [ updateVariantFromPills([ page EXCEPT !.options[i] = value ])
                 EXCEPT !.op = "pill", !.called = << >>, !.note = "" ]
  /\ PageStep

\* ProductForms.handleVariantChange on a product page select: the select at
\* option position i now has `value`
SelectChange(i, value) ==
  /\ page' = [ updateVariantId([ page EXCEPT !.options[i] = value ])
                 EXCEPT !.op = "select", !.called = << >>, !.note = "" ]
  /\ PageStep

NextForm ==
  \/ \E i \in 1..NumOptions : \E value \in OptionValues[i] : PillClick(i, value)
  \/ \E i \in 1..NumOptions : \E value \in OptionValues[i] : SelectChange(i, value)

SpecForm == InitForm /\ [][NextForm]_vars


\* ------------------------------------------------------------------------
\* The product page of one product, with its quantity field, its form and
\* the timer that resets the submit button.
\* Small/Red and Large/Red can be bought, Large/Green is sold out, and there
\* is no Small/Green; the variant data is well-formed.
PageVariants ==
  << VariantOf(1, "Small", "Red", TRUE), VariantOf(2, "Large", "Red", TRUE),
     VariantOf(3, "Large", "Green", FALSE) >>

InitPage ==
  /\ InitCart(<< [key |-> "a", quantity |-> 1] >>, 1)
  /\ \E k \in 1..Len(PageVariants) : page = RenderedPage(PageVariants, k, "ok", 1)

\* a click on the plus or minus button of the quantity selector
QuantityClick(action) ==
  /\ action = "increase" => FormQuantity(page.quantity) < MaxPageQuantity
  /\ page' = Did(handleQuantityChange(page, action), action)
  /\ PageStep

\* the customer types into the quantity field: the input event
QuantityInput(raw) ==
  /\ page' = Did(handleQuantityInputChange([ page EXCEPT !.quantity = raw ]), "input")
  /\ PageStep

\* the form is submitted through its submit button, which a browser allows
\* only while the button is enabled
SubmitForm(fn) ==
  /\ nextReq <= MaxSubmits
  /\ ~page.button.disabled
  /\ page' = submitPage(page, fn, getCurrentCartTotal(cart))
  /\ handleProductForm(page.variantId, page.quantity, fn)
  /\ UNCHANGED site

\* the 500 ms timers of handleProductForm, which run in the order they were set
ResetTimer ==
  /\ page.resets # << >>
  /\ page' = [ Did(page, "reset") EXCEPT !.button = ResetButton(@, Head(page.resets)),
                                         !.resets = Tail(@) ]
  /\ PageStep

NextPage ==
  \/ \E i \in 1..NumOptions : \E value \in OptionValues[i] : PillClick(i, value)
  \/ \E action \in {"increase", "decrease"} : QuantityClick(action)
  \/ \E raw \in TypedQuantities : QuantityInput(raw)
  \/ \E fn \in AddToCartKinds : SubmitForm(fn)
  \/ ResetTimer
  \/ \E r \in net : ServerProcess(r)
  \/ \E r \in net : DeliverSuccess(r)
  \/ \E r \in net, reason \in {"network", "unavailable"} : DeliverError(r, reason, FALSE)
  \/ RequestCompleteEvent

SpecPage == InitPage /\ [][NextPage]_vars


\* ------------------------------------------------------------------------
\* Submitting the product form and what follows: the customer has set the
\* quantity, then selects variants and submits while the timers of earlier
\* submits run and CartJS answers the adds.
InitSubmit ==
  /\ InitCart(<< [key |-> "a", quantity |-> 1] >>, 1)
  /\ \E k \in 1..Len(PageVariants), quantity \in 1..MaxPageQuantity :
       page = RenderedPage(PageVariants, k, "ok", quantity)

NextSubmit ==
  \/ \E i \in 1..NumOptions : \E value \in OptionValues[i] : PillClick(i, value)
  \/ \E fn \in AddToCartKinds : SubmitForm(fn)
  \/ ResetTimer
  \/ \E r \in net : ServerProcess(r)
  \/ \E r \in net : DeliverSuccess(r)
  \/ \E r \in net, reason \in {"network", "unavailable"} : DeliverError(r, reason, FALSE)
  \/ RequestCompleteEvent

SpecSubmit == InitSubmit /\ [][NextSubmit]_vars

\* the timers the browser has set do run
SpecSubmitFair == SpecSubmit /\ WF_vars(ResetTimer)


\* ------------------------------------------------------------------------
\* Properties

\* the lines of a snapshot and the rendered items, as (key, quantity) pairs
SnapshotPairs(c) == { << c.items[i].key, c.items[i].quantity >> : i \in 1..Len(c.items) }
RenderedPairs == { << dom[i].key, dom[i].qty >> : i \in 1..Len(dom) }

\* the call the last step handed to CartJS, if it did
Dispatched == { r \in net : r.id = last.nreq0 /\ r.phase = "sent" }

\* C1: addToCart with a variant id hands the add to CartJS exactly when the
\* current cart total plus the quantity (clamped to 1..10) is at most 50;
\* otherwise it ends with a quantity-limit error and no call is made.
C1_AddDispatchedIffWithinLimit ==
  (last.op = "addToCart" /\ last.key # "") =>
    LET q == IF last.change < 1 THEN 1 ELSE IF last.change > 10 THEN 10 ELSE last.change
        t == SumQuantity(cart.items)
    IN /\ (Dispatched # {}) <=> (t + q <= 50)
       /\ \A r \in Dispatched : r.kind = "add" /\ r.vid = last.key /\ r.qty = q
       /\ (t + q > 50) => (last.err = "CART_QUANTITY_LIMIT" /\ nextReq = last.nreq0)

\* C1 witness: at total 49 an add of 2 has been rejected without a call
C1_Witness ==
  /\ last.op = "addToCart" /\ last.key # "" /\ last.change = 2
  /\ SumQuantity(cart.items) = 49
  /\ last.err = "CART_QUANTITY_LIMIT" /\ Dispatched = {}

\* C2 (as claimed): after the failure of the call an updateQuantity issued,
\* the item shows the quantity it showed right before that updateQuantity.
C2_RollbackExact ==
  (last.op = "error" /\ last.req.kind \in {"update", "remove"}) =>
    Shown(dom, last.key) = last.req.prev

\* C3 (as claimed): the failure of an update call that a later edit of the
\* same item has superseded leaves the displayed quantity as it was.
C3_StaleFailureIgnored ==
  ( /\ last.op = "error" /\ last.req.kind = "update"
    /\ \E r \in net : r.key = last.key /\ r.id > last.req.id
                      /\ r.kind \in {"update", "remove"} )
  => Shown(dom, last.key) = last.shown0

\* C4 (as claimed): at most one quantity-update call is in flight per item key.
C4_OneCallPerKey ==
  \A k \in Keys :
    Cardinality({ r \in net : r.key = k /\ r.kind \in {"update", "remove"}
                              /\ r.phase = "sent" }) <= 1

\* C5: once a cart.requestComplete event has been handled, the rendered items
\* and the quantities they show are those of the event's snapshot, whatever
\* was shown before and whatever edits are still pending.
C5_LastSnapshotWins ==
  (last.op \in {"success", "requestComplete"}) =>
    /\ RenderedPairs = SnapshotPairs(last.snap)
    /\ Len(dom) = Len(last.snap.items)

\* C5 witness: a snapshot older than the server's cart has been applied over an
\* optimistic edit whose own call is still in flight, and changed the display
C5_Witness ==
  /\ last.op = "success"
  /\ last.snap # Snapshot(server, catalog)
  /\ \E r \in net : r.key = last.key /\ r.kind = "update" /\ r.id > last.req.id
  /\ last.shown0 # NotShown
  /\ Shown(dom, last.key) # last.shown0

\* C9 (as claimed): when the removal of an item has failed and a later snapshot
\* still holds the item, then with no timer left the item is rendered with the
\* snapshot's quantity.
C9_FailedRemovalReconciled ==
  \A k \in Keys :
    (removal[k] = "resnapped" /\ timers = {}) =>
      /\ IndexOfKey(cart.items, k) # 0
      /\ Shown(dom, k) = cart.items[IndexOfKey(cart.items, k)].quantity

\* C10: no update call in flight carries a quantity below 1, and an
\* updateQuantity whose current quantity plus delta is 0 or less hands CartJS a
\* removal of that item's line.
C10_NoUpdateBelowOne ==
  /\ \A r \in net : r.kind = "update" => r.qty >= 1
  /\ (last.op = "updateQuantity" /\ last.shown0 # NotShown
        /\ last.shown0 + last.change <= 0)
     => \E r \in Dispatched :
          /\ r.kind = "remove" /\ r.key = last.key
          /\ r.line = IndexOfKey(cart.items, last.key) /\ r.line # 0

\* C10 witness: a delta of -2 on an item showing 1 has dispatched a removal
C10_Witness ==
  /\ last.op = "updateQuantity" /\ last.shown0 = 1 /\ last.change = 0 - 2
  /\ \E r \in Dispatched : r.kind = "remove" /\ r.key = last.key

\* C6: after updateCart(snapshot) the rendered keys are the snapshot's keys in
\* the snapshot's order, every item shows the snapshot's quantity, and a
\* snapshot of item_count 0 leaves no item and shows the empty-cart message.
C6_RenderedMatchesSnapshot ==
  (last.op = "event") =>
    /\ [ i \in 1..Len(dom) |-> dom[i].key ]
         = [ i \in 1..Len(last.snap.items) |-> last.snap.items[i].key ]
    /\ \A i \in 1..Len(dom) : dom[i].qty = last.snap.items[i].quantity
    /\ (last.snap.item_count = 0) => (dom = << >> /\ emptyShown)
    /\ (last.snap.item_count # 0) => ~emptyShown

\* C6 witness: one updateCart removed a key, created a key and kept a key, and
\* put the created element before the kept one
C6_Witness ==
  /\ last.op = "event"
  /\ last.had \ KeysOf(dom) # {}
  /\ KeysOf(dom) \ last.had # {}
  /\ Len(dom) = 2
  /\ dom[2].key \in last.had
  /\ dom[1].id > dom[2].id

\* C7: updateCart applied a second time in a row with the same snapshot leaves
\* the view as the first application left it: the same nodes with the same
\* images, in the same (the snapshot's) order.
C7_ReconcileIdempotent ==
  [][ (last.op = "event" /\ last'.op = "event" /\ last'.snap = last.snap) =>
        /\ dom' = dom
        /\ emptyShown' = emptyShown
        /\ badge' = badge /\ subtotal' = subtotal /\ footer' = footer
        /\ [ i \in 1..Len(dom') |-> dom'[i].key ]
             = [ i \in 1..Len(last'.snap.items) |-> last'.snap.items[i].key ]
    ]_vars

\* C7 witness: a second application in a row, on two items of which one
\* still has an image other than the snapshot's
C7_Witness ==
  /\ last.op = "event" /\ last.again
  /\ Len(dom) = 2
  /\ \E i \in 1..Len(dom) : dom[i].image # last.snap.items[i].image

\* C8: updateCart keeps the element of every key that is rendered and in the
\* snapshot: same node, same image, same removing class; its quantity, line
\* price and title are the snapshot's.
C8_ExistingNodeKept ==
  [][ (last'.op = "event") =>
        \A i \in 1..Len(dom) :
          (dom[i].key \in KeysOf(last'.snap.items)) =>
            \E j \in 1..Len(dom') :
              LET item == last'.snap.items[IndexOfKey(last'.snap.items, dom[i].key)]
              IN /\ dom'[j].id = dom[i].id
                 /\ dom'[j].key = dom[i].key
                 /\ dom'[j].image = dom[i].image
                 /\ dom'[j].removing = dom[i].removing
                 /\ dom'[j].qty = item.quantity
                 /\ dom'[j].price = formatMoney(item.final_line_price)
                 /\ dom'[j].title = (IF item.variant_title = "Default Title"
                                     THEN item.product_title ELSE item.variant_title)
    ]_vars

\* C8 witness: an element rendered before the event still has an image other
\* than the one the snapshot carries for its key
C8_Witness ==
  /\ last.op = "event"
  /\ \E i \in 1..Len(dom) :
       /\ dom[i].key \in last.had
       /\ dom[i].image # last.snap.items[i].image
       /\ dom[i].title = last.snap.items[i].variant_title

\* C11: an updateQuantity with a negative delta on a rendered item is never
\* turned down by the cart-wide limit, whatever the cart total is (also above
\* 50): no limit notification, the display moves to max(0, shown + delta) and
\* the call for the item's line is handed to CartJS.
C11_DecreaseNeverRejected ==
  (last.op = "updateQuantity" /\ last.change < 0 /\ last.shown0 # NotShown) =>
    /\ last.note = ""
    /\ Shown(dom, last.key)
         = (IF last.shown0 + last.change < 0 THEN 0 ELSE last.shown0 + last.change)
    /\ (IndexOfKey(cart.items, last.key) # 0) => (Dispatched # {})

\* C11 witness: with 52 items in the cart a delta of -1 went through and the
\* total it leaves is still above 50
C11_Witness ==
  /\ last.op = "updateQuantity" /\ last.change = 0 - 1
  /\ last.total0 > 50 /\ last.total0 + last.change > 50
  /\ Shown(dom, last.key) = last.shown0 - 1
  /\ \E r \in Dispatched : r.kind = "update" /\ r.qty = last.shown0 - 1

\* C12: whenever updateQuantity has handed CartJS an update or a removal, the
\* item already shows the quantity that call asks for (0 for a removal): the
\* display is written in the same synchronous run, ahead of the call.
C12_DisplayAheadOfCall ==
  (last.op = "updateQuantity") =>
    \A r \in Dispatched :
      /\ r.kind \in {"update", "remove"}
      /\ r.key = last.key
      /\ Shown(dom, last.key) = (IF r.kind = "remove" THEN 0 ELSE r.qty)
      /\ (r.kind = "update") => (r.qty = last.shown0 + last.change)

\* C12 witness: an increase has been dispatched and the item shows the new
\* quantity, which the cart CartJS holds does not have yet
C12_Witness ==
  /\ last.op = "updateQuantity" /\ last.change = 1
  /\ \E r \in Dispatched :
       /\ r.kind = "update" /\ r.qty = last.shown0 + 1
       /\ Shown(dom, last.key) = r.qty
       /\ cart.items[r.line].quantity # r.qty

C14_EveryFailureNotified ==
  (last.op = "error") => (last.note # "" \/ last.globalNote # "")

\* C15: addToCart with a missing variant id, and a product form submitted
\* without one, hand nothing to CartJS: no call is made by the step, and no add
\* in flight ever carries an empty variant id.
C15_NoAddWithoutVariantId ==
  /\ \A r \in net : r.kind = "add" => r.vid # ""
  /\ (last.op \in {"addToCart", "submit"} /\ last.key = "") =>
       (Dispatched = {} /\ nextReq = last.nreq0)
  /\ (last.op = "addToCart" /\ last.key = "") => last.err = "CART_VARIANT_NOT_FOUND"

\* C15 witness: with room left in the cart a product form without a variant
\* id has been submitted and no call went out
C15_Witness ==
  /\ last.op = "submit" /\ last.key = ""
  /\ last.total0 + 2 <= 50 /\ last.change = 2
  /\ net = {}

C17_LineRequestWithinCeiling ==
  \A r \in net :
    (r.kind = "update" /\ r.prev <= MaxItemQuantity) => r.qty <= MaxItemQuantity

\* the variants of the page's list whose option values equal the selection at
\* every option position
ExactMatches(p) ==
  { i \in 1..Len(p.variants) :
      \A n \in 1..NumOptions : p.variants[i].options[n] = p.options[n] }

\* C18: with well-formed variant data, after a pill click or select change
\* the resolver has applied a variant equal to the selection at every option
\* position when the list has one (its id is in the id input, and an applied
\* variant is never a partial match), and has applied nothing - id input,
\* button and price as before - when the list has none; it never throws.
C18_ResolverExactOrNone ==
  [][ (page'.op \in {"pill", "select"} /\ page'.script = "ok") =>
        /\ page'.outcome \in {"applied", "none"}
        /\ (ExactMatches(page') # {}) =>
             /\ page'.outcome = "applied"
             /\ \E i \in ExactMatches(page') : page'.variantId = page'.variants[i].id
        /\ (ExactMatches(page') = {}) =>
             /\ page'.outcome = "none"
             /\ page'.variantId = page.variantId
             /\ page'.button = page.button
             /\ page'.price = page.price
    ]_vars

\* C18 witness: a click left a selection that only partial matches exist for,
\* and the id input still holds the variant resolved before
C18_Witness ==
  /\ page.op = "pill" /\ page.script = "ok" /\ page.outcome = "none"
  /\ ExactMatches(page) = {}
  /\ \E i \in 1..Len(page.variants) : page.variants[i].options[1] = page.options[1]
  /\ \E i \in 1..Len(page.variants) :
       page.variants[i].id = page.variantId /\ page.variants[i].options # page.options

\* C19: when the text of the variant data does not parse, a pill click or
\* select change ends without an exception reaching its caller and applies no
\* variant: the id input, the add-to-cart button and the price display are as
\* before.
C19_MalformedDataFailsClosed ==
  [][ (page'.op \in {"pill", "select"} /\ page'.script = "malformed") =>
        /\ page'.outcome = "caught"
        /\ page'.variantId = page.variantId
        /\ page'.button = page.button
        /\ page'.price = page.price
    ]_vars

\* C19 witness: with unparsable data a select change moved the selection to
\* a variant other than the one in the id input, and nothing was applied
C19_Witness ==
  /\ page.op = "select" /\ page.script = "malformed" /\ page.outcome = "caught"
  /\ \E i \in 1..Len(page.variants) :
       /\ page.variants[i].options = page.options
       /\ page.variants[i].id # page.variantId
       /\ page.variants[i].available # (~page.button.disabled)

\* C20 (as claimed): for a whole amount c >= 0 of cents the formatter gives
\* '$', c div 100, '.', c mod 100 in two digits, and it gives '$0.00' for NaN
\* and for every value that is not a number.
C20_MoneyFormat ==
  (last.op = "money") =>
    /\ (last.raw.type = "number") =>
         last.money = << "$", last.raw.tenths \div 1000, (last.raw.tenths \div 10) % 100 >>
    /\ (last.raw.type # "number") => last.money = << "$", 0, 0 >>

\* the step is a submit of the product form
SubmitStep == page'.op = "submit" /\ last'.op \in {"submit", "addToCart"}

\* C21 (as claimed): a submit of the product form that gets as far as
\* window.addToCart calls it once, with the id of the variant whose option
\* values equal the current selection and with the quantity the quantity
\* field holds, whatever pills were clicked and quantities entered before.
C21_SubmitAddsSelection ==
  [][ (SubmitStep /\ page'.called # << >>) =>
        /\ Len(page'.called) = 1
        /\ \E i \in ExactMatches(page) : page'.called[1].id = page.variants[i].id
        /\ NumString(page'.called[1].quantity) = page.quantity
    ]_vars

\* C22 (as claimed): a click on the plus button of a rendered cart item
\* while the cart total is one below the ceiling or more is rejected: the
\* 'Cart cannot exceed 50 items total' notification is shown and no call is
\* dispatched.
C22_PlusRejectedNearCeiling ==
  (/\ last.op = "updateQuantity" /\ last.change > 0
   /\ last.shown0 # NotShown
   /\ last.total0 >= UpdateLimit - 1) =>
     /\ last.note = "Cart cannot exceed 50 items total"
     /\ Dispatched = {}

\* C23: a click on the plus or minus button of a rendered cart item that is
\* not rejected by the limit check and leaves a quantity of at least 1 hands
\* CartJS exactly one updateItem call, for that item, with the new quantity.
C23_OneUpdatePerClick ==
  (/\ last.op = "updateQuantity" /\ last.change \in {0 - 1, 1}
   /\ last.shown0 # NotShown
   /\ last.note = ""
   /\ last.shown0 + last.change >= 1) =>
     /\ Cardinality(Dispatched) = 1
     /\ \A r \in Dispatched :
          /\ r.kind = "update" /\ r.key = last.key
          /\ r.qty = last.shown0 + last.change

\* C23 witness: a minus click on an item showing 10 has dispatched one
\* updateItem asking for 9
C23_Witness ==
  /\ last.op = "updateQuantity" /\ last.change = 0 - 1 /\ last.shown0 = 10
  /\ \E r \in Dispatched : r.kind = "update" /\ r.qty = 9

C25_QuantityFieldAtLeastOne ==
  (page.op \in {"increase", "decrease", "input"}) =>
    /\ page.quantity.type = "numstring"
    /\ page.quantity.tenths % 10 = 0
    /\ page.quantity.tenths >= 10

\* C26 (as claimed): while the add-to-cart button carries its price, that
\* price is the unit price of the variant the selection designates times the
\* quantity the quantity field holds.
C26_ButtonPriceIsUnitTimesQuantity ==
  (page.script = "ok" /\ page.button.priceSpan /\ page.quantity.type = "numstring") =>
    \A i \in ExactMatches(page) :
      page.button.cartPrice
        = formatMoney((page.variants[i].price * page.quantity.tenths) \div 10)

\* C27: a submit that passes validation leaves the submit button disabled and
\* labelled 'Adding...' with a reset pending for the text it had (or, when
\* window.addToCart threw or is missing, enabled with the text it had); the
\* reset step enables the button and gives it that text; and every pending
\* reset is eventually run, whatever becomes of the add.
C27_ButtonResetAfterSubmit ==
  /\ [][ /\ (/\ SubmitStep /\ page'.note = ""
              /\ ~FormLacksVariantId(page.variantId)) =>
                (IF Len(page'.resets) > Len(page.resets)
                 THEN /\ page'.button.disabled
                      /\ page'.button.label = "Adding..."
                      /\ page'.resets[Len(page'.resets)] = textContent(page.button)
                 ELSE /\ ~page'.button.disabled
                      /\ textContent(page'.button) = textContent(page.button))
         /\ (page'.op = "reset" /\ last'.op = "page") =>
                (/\ page.resets # << >>
                 /\ ~page'.button.disabled
                 /\ textContent(page'.button) = Head(page.resets)
                 /\ page'.resets = Tail(page.resets))
       ]_vars
  /\ (page.resets # << >>) ~> (page.resets = << >>)

\* C27 witness: the timer of a submit has run, and the button is enabled
\* again with the label and price it had when the form was submitted
C27_Witness ==
  /\ page.op = "reset" /\ page.resets = << >>
  /\ ~page.button.disabled
  /\ textContent(page.button) = << "Add to Cart", formatMoney(6000) >>
  /\ \E r \in net : r.kind = "add" /\ r.vid = "789" /\ r.qty = 2

\* C28: in every state the badge shows the item_count of the snapshot applied
\* last, which is the cart CartJS holds, and is displayed (flex) exactly when
\* that count is above 0; and a step of updateQuantity, of a removal timer,
\* of a failing call or of the event that follows a failure leaves the badge
\* and the subtotal as they were.
C28_BadgeFollowsSnapshot ==
  /\ [](/\ badge.text = cart.item_count
        /\ (badge.display = "flex") <=> (cart.item_count > 0)
        /\ badge.display \in {"flex", "none"})
  /\ [][ (last'.op \in {"updateQuantity", "timer", "error", "requestComplete"}) =>
           (badge' = badge /\ subtotal' = subtotal) ]_vars

\* C28 witness: an optimistic edit is on display - the item shows a quantity
\* the cart CartJS holds does not have - and the badge still shows the count
\* of that cart
C28_Witness ==
  /\ last.op = "updateQuantity"
  /\ \E r \in Dispatched :
       /\ r.kind = "update"
       /\ Shown(dom, r.key) = r.qty
       /\ cart.items[r.line].quantity # r.qty
  /\ badge.text = cart.item_count /\ badge.display = "flex"

\* C29: in every state the flyout's aria-hidden is 'false' exactly when the
\* cart button's aria-expanded is 'true' and the overlay is visible (and
\* when it is 'true' neither holds); a click on the cart button and an add
\* that succeeds leave the flyout open; a click on the close button or the
\* overlay leaves it closed; Escape closes an open flyout and changes
\* nothing on a closed one.
C29_FlyoutButtonOverlayAgree ==
  /\ [](/\ cartFlyout.ariaHidden \in {"true", "false"}
        /\ (cartFlyout.ariaHidden = "false") <=>
             (cartFlyout.ariaExpanded = "true" /\ cartFlyout.overlayVisible)
        /\ (cartFlyout.ariaHidden = "true") <=>
             (cartFlyout.ariaExpanded = "false" /\ ~cartFlyout.overlayVisible))
  /\ [][ /\ (last'.op = "cartButton") => isCartOpen(cartFlyout')
         /\ (last'.op = "success" /\ last'.req.kind = "add") => isCartOpen(cartFlyout')
         /\ (last'.op \in {"closeButton", "overlay"}) => ~isCartOpen(cartFlyout')
         /\ (last'.op = "escape") =>
              (/\ ~isCartOpen(cartFlyout')
               /\ ~isCartOpen(cartFlyout) => cartFlyout' = cartFlyout)
       ]_vars

\* C29 witness: the second add of the session has succeeded, and the flyout
\* is open with the cart button expanded and the overlay visible
C29_Witness ==
  /\ last.op = "success" /\ last.req.kind = "add" /\ last.req.id = 2
  /\ cartFlyout.ariaHidden = "false"
  /\ cartFlyout.ariaExpanded = "true"
  /\ cartFlyout.overlayVisible

\* C30: the modal has class is-open after a click on the open trigger, and
\* has it no longer after a click on the close button, an Escape keypress
\* or a click on the overlay itself; no other step changes whether it has
\* the class, a click elsewhere inside the modal container among them; and
\* Escape while the modal is closed changes nothing of the modal.
C30_ModalOpenUntilClosed ==
  [][ LET m == page.modal
          n == page'.modal
      IN  /\ last'.op = "modalOpen" => n.isOpen
          /\ last'.op \in {"data-modal-close", "escape", "modal__overlay"} => ~n.isOpen
          /\ last'.op \notin {"modalOpen", "data-modal-close", "escape", "modal__overlay"}
               => n.isOpen = m.isOpen
          /\ (last'.op = "escape" /\ ~m.isOpen) => n = m
    ]_vars

\* C30 witness: the modal was opened, an address typed and the form
\* submitted, and after a click on the success content the modal is still
\* open and shows it
C30_Witness ==
  /\ last.op = "modal__success-content"
  /\ page.modal.isOpen
  /\ page.modal.successContent = "block"
  /\ checkValidity(page.modal.email)

\* an element with this inline display is shown
IsDisplayed(display) == display # "none"

\* C31: a step that opens or closes the modal leaves the form content
\* shown, the success content hidden and the email field empty; the success
\* content comes to be shown only by a submit of a valid form; and in no
\* state are form content and success content both shown.
C31_FormViewRestored ==
  /\ [](~(IsDisplayed(page.modal.formContent) /\ IsDisplayed(page.modal.successContent)))
  /\ [][ LET m == page.modal
             n == page'.modal
         IN  /\ (\/ last'.op \in {"modalOpen", "data-modal-close", "modal__overlay"}
                 \/ (last'.op = "escape" /\ m.isOpen)) =>
                   (/\ IsDisplayed(n.formContent)
                    /\ ~IsDisplayed(n.successContent)
                    /\ n.email = << >>)
             /\ (IsDisplayed(n.successContent) /\ ~IsDisplayed(m.successContent)) =>
                   (last'.op = "modalSubmit" /\ checkValidity(m.email))
       ]_vars

\* C31 witness: a valid address was typed into the open modal and the form
\* submitted: the success content is shown and the form content hidden
C31_Witness ==
  /\ last.op = "modalSubmit"
  /\ page.modal.isOpen
  /\ checkValidity(page.modal.email)
  /\ IsDisplayed(page.modal.successContent)
  /\ ~IsDisplayed(page.modal.formContent)

\* C32 (as claimed): a read of a preference - Utils.Storage.get,
\* Config.loadUserPreferences, the accessibility preference loader - raises
\* nothing, and when the store denies access or holds text that is not JSON
\* under the key, Storage.get and the accessibility loader return their
\* default value and loadUserPreferences leaves the configuration as it was.
C32_PreferenceReadNeverRaises ==
  /\ []((last.op \in {"Storage.get", "loadUserPreferences",
                      "loadUserAccessibilityPreferences"}) =>
          /\ ~site.result.raised
          /\ Unreadable(site.store, last.key) => site.result.value = site.default)
  /\ [][ (last'.op = "loadUserPreferences"
            /\ Unreadable(site.store, "theme_preferences")) =>
           site'.config = site.config ]_vars

\* C40 (as claimed): after Config.reset(), every configuration value that
\* Config.set or Config.update changed has the value the configuration had
\* when the script had loaded.
C40_ResetRestoresDefaults ==
  (last.op = "reset") =>
    \A path \in site.changed :
      ValueAt(site.config, path) = ValueAt(LoadedSite(site.env, site.store).config, path)

\* C33 (as claimed): when the cart the page is loaded with holds at most 50
\* items, the cart the server holds has at most 50 items in every state,
\* whatever addToCart and updateQuantity calls are made and however their
\* responses interleave: no step takes the server's cart from at most 50
\* items to more than 50.
C33_ServerTotalWithinCeiling ==
  [][ SumQuantity(server) <= MaxQuantity => SumQuantity(server') <= MaxQuantity ]_vars

\* C34 (as claimed): when the server applies an update or a removal, the
\* line the call names is a line of the cart the server holds, and it is
\* the line of the item key the call was issued for.
C34_LineStillDesignatesKey ==
  [][ (last'.op = "server") =>
        \A r \in net \ net' :
          (r.kind \in {"update", "remove"}) =>
            /\ r.line \in 1..Len(server)
            /\ server[r.line].key = r.key ]_vars

\* C35 (as claimed): after a pill click or a select change on a page with
\* well-formed variant data, the id input holds the id of a variant whose
\* option values equal the selection at every option position, or the
\* add-to-cart button is disabled.
C35_SelectionResolvedOrDisabled ==
  (page.op \in {"pill", "select"} /\ page.script = "ok") =>
    \/ \E i \in ExactMatches(page) : page.variantId = page.variants[i].id
    \/ page.button.disabled

\* C36 (as claimed): whatever value cart.maxQuantity is configured to,
\* addToCart, updateQuantity and the pre-check of the product form give the
\* same verdict on a prospective total.
C36_CeilingChecksAgree ==
  (last.op = "ceiling") =>
    /\ site.rejects.updateQuantity = site.rejects.addToCart
    /\ site.rejects.handleProductForm = site.rejects.addToCart

\* C37 (as claimed): in every state in which the variant whose id the id
\* input holds is sold out, the add-to-cart button is disabled.
C37_SoldOutButtonDisabled ==
  \A i \in 1..Len(page.variants) :
    (page.variants[i].id = page.variantId /\ ~page.variants[i].available) =>
      page.button.disabled

\* C38: the constructor of CartManager ends with a poll timer pending or the
\* wait settled; the retry count never passes maxRetries; the promise is
\* rejected exactly when a CART_DEPENDENCY_TIMEOUT error has been reported,
\* once, with the retry
\* count at maxRetries and init not run; it is resolved exactly when init
\* has run, once; a poll timer is pending only while neither has happened;
\* and polling ends: the timer is eventually not pending for good, with the
\* timeout reported if jQuery and CartJS never became available.
C38_PollingStops ==
  /\ [](LET w == site.wait
        IN  /\ w.timer \/ w.promise \in {"resolved", "rejected"}
            /\ w.retryCount <= w.maxRetries
            /\ w.initRuns <= 1
            /\ (w.promise = "rejected") <=>
                 (w.reported = << createError("cart", "CART_DEPENDENCY_TIMEOUT").code >>)
            /\ (w.promise = "rejected") =>
                 (w.retryCount = w.maxRetries /\ w.initRuns = 0)
            /\ (w.promise = "resolved") <=> (w.initRuns = 1)
            /\ w.timer => (w.promise = "pending" /\ w.reported = << >>))
  /\ <>[](~site.wait.timer)
  /\ <>(site.wait.available \/ site.wait.promise = "rejected")

\* C38 witness: jQuery and CartJS never loaded, the 100 retries of the
\* default configuration are used up and the timeout has been reported
C38_Witness ==
  /\ ~site.wait.available
  /\ site.wait.maxRetries = 100
  /\ site.wait.retryCount = 100
  /\ site.wait.promise = "rejected"
  /\ ~site.wait.timer
  /\ site.wait.initRuns = 0

\* C39 (as claimed): in every state the body's overflow is hidden when the
\* cart flyout or the mobile menu is open, and is not when both are closed.
C39_ScrollLockedWhileOpen ==
  (cartFlyout.bodyOverflow = "hidden") <=>
    (isCartOpen(cartFlyout) \/ isMenuOpen(page.menu))

====
